---- MODULE Spec2Model ----
(***************************************************************************)
(* Model of the research agent's evidence orchestration engine:            *)
(*   - the FAISS-backed vector store (vector_store/client.py, upsert.py),  *)
(*   - the discovery controller run_pipeline (controller/run.py),          *)
(*   - agreement validation and scoring (analytics/agreement_detector.py,  *)
(*     scoring/agreement_scorer.py),                                       *)
(*   - conflict resolution and rewriting (analytics/conflict_resolver.py,  *)
(*     analytics/summary_rewriter.py).                                     *)
(* Python dicts that are shared by reference (a record appended both to    *)
(* the run's summaries list and to the store's metadata list) are modelled *)
(* as objects on a heap; lists hold references into it.                    *)
(***************************************************************************)
EXTENDS Integers, Sequences, FiniteSets, TLC

(***************************************************************************)
(* Bounds of the model.                                                    *)
(***************************************************************************)
MaxUrl == 3            \* URLs the web can return are 1..MaxUrl
MaxIterations == 2     \* largest "iterations" of a mode that is explored
MaxWebResults == 2     \* longest result list the search provider returns
MaxRel == 2            \* most entries in an agreement detector response
MaxBatch == 2          \* longest batch handed to a direct upsert call
MaxStore == 3          \* store size up to which direct upserts are explored
MaxConflicts == 2      \* most conflicts in a conflict detector response

(***************************************************************************)
(* Program constants.                                                      *)
(***************************************************************************)
VECTOR_TOP_K == 10
CROSS_TOP_K == 5
QUERIES_PER_ITERATION == 2
MAX_RESULTS == 3
MIN_RECORDS_FOR_SCORING == 2
AUTHOR_BONUS == 5
DOMAIN_BONUS == 5

Absent == -1           \* a dict key that is not present / Python None
NoUrl == 0             \* a search result without "url"

URLS == 1..MaxUrl
QueryTexts == {1, 2}   \* the texts a query generator may produce
OrigText == 0          \* text returned by generate_summary
RewrittenText == 1     \* text returned by rewrite_summaries

Min(a, b) == IF a < b THEN a ELSE b

Range(s) == {s[i] : i \in 1..Len(s)}

(***************************************************************************)
(* The environment: what a URL's page says about itself, and the           *)
(* credibility datasets loaded by CredibilityStore.                        *)
(***************************************************************************)
DomainOf(u) == CASE u = 1 -> "journal.org"
                 [] u = 2 -> "preprints.org"
                 [] OTHER -> "blog.net"

AuthorOf(u) == CASE u = 1 -> " Jane Smith "
                 [] u = 2 -> "anonymous"
                 [] OTHER -> "none"

\* _extract_domain (lines 50-60): the lower-cased host of the URL without
\* "www."
ExtractDomain(u) == CASE u = 1 -> "journal.org"
                      [] u = 2 -> "preprints.org"
                      [] OTHER -> "blog.net"

\* str.strip().lower() on the author strings of this environment
Normalize(a) == CASE a = " Jane Smith " -> "jane smith"
                  [] a = "JANE SMITH" -> "jane smith"
                  [] OTHER -> a

CRED_AUTHORS == {"jane smith"}

CRED_SOURCES ==
    [d \in {"journal.org", "preprints.org", "series.org", "forum.org"} |->
        CASE d = "journal.org" -> "journal"
          [] d = "preprints.org" -> "repository"
          [] d = "series.org" -> "book series"
          [] OTHER -> "proceedings"]

VENUE_SCORES(v) == CASE v = "journal" -> 3
                     [] v = "repository" -> 2
                     [] v = "book series" -> 1
                     [] OTHER -> 0

\* a credibility score without the venue-type bonus
compute_summary_score_NoVenue(r) ==
    LET a == IF r.author # "none" /\ Normalize(r.author) \in CRED_AUTHORS
             THEN AUTHOR_BONUS ELSE 0
        domain == IF r.domain # "" THEN r.domain ELSE ExtractDomain(r.url)
        d == IF domain # "" /\ domain \in DOMAIN CRED_SOURCES
             THEN DOMAIN_BONUS ELSE 0
    IN  a + d

\* lines 66-108: "none" is a missing author, "" a missing domain
compute_summary_score(r) ==
    LET a == IF r.author # "none" /\ Normalize(r.author) \in CRED_AUTHORS
             THEN AUTHOR_BONUS ELSE 0
        domain == IF r.domain # "" THEN r.domain ELSE ExtractDomain(r.url)
        d == IF domain # "" /\ domain \in DOMAIN CRED_SOURCES
             THEN DOMAIN_BONUS + VENUE_SCORES(CRED_SOURCES[domain]) ELSE 0
    IN  a + d

(***************************************************************************)
(* Embeddings: the embedder maps each query text to its own unit vector;   *)
(* distinct texts are orthogonal.                                          *)
(***************************************************************************)
Embed(q) == q
InnerProduct(a, b) == IF a = b THEN 1 ELSE 0

VARIABLES
    heap,                 \* Python objects: Seq of record dicts
    vs_index,             \* VectorStoreClient.index (vectors, in memory)
    vs_metadata,          \* VectorStoreClient.metadata (refs into heap)
    disk_index,           \* index.faiss
    disk_meta,            \* metadata.json
    vs_status,            \* "ready" | "load_failed"
    vs_call,              \* last call of the client: arguments and result
    pc,                   \* position of run_pipeline
    max_iterations,
    iteration,
    qidx,                 \* next query of the round to process
    current_queries,
    generator_input,      \* what the round's query generator was given
    retrieved_candidates,
    selected_intents,
    judge_raw,            \* the judge's answer of this round, as received
    summaries,            \* refs into heap, creation order
    seen_urls,
    sid_counter,
    round_log,            \* per query of the round: how it was resolved
    agreement_raw,        \* data: the agreement LLM's answer as parsed
    agreement_map,
    conflicts,
    removals,
    trace,                \* sections logged by ResearchTrace
    returned,             \* what run_pipeline returned
    error                 \* exception that ended the run

storeVars == <<heap, vs_index, vs_metadata, disk_index, disk_meta,
               vs_status, vs_call>>
roundVars == <<iteration, qidx, current_queries, generator_input,
               retrieved_candidates,
               selected_intents, judge_raw, round_log>>
runVars == <<pc, max_iterations, summaries, seen_urls, sid_counter,
             agreement_raw, agreement_map, conflicts, removals, trace,
             returned, error>>
vars == <<storeVars, roundVars, runVars>>

(***************************************************************************)
(* Records.                                                                *)
(***************************************************************************)
\* an ingestion that labels every record S1
NewRecord_AlwaysFirstId(sid, q, u) ==
    [id |-> 1, query_text |-> q, summary |-> OrigText, url |-> u,
     domain |-> DomainOf(u), author |-> AuthorOf(u), embedding |-> Embed(q),
     credibility_score |-> Absent, agreement_score |-> Absent,
     total_score |-> Absent]

NewRecord(sid, q, u) ==
    [id |-> sid, query_text |-> q, summary |-> OrigText, url |-> u,
     domain |-> DomainOf(u), author |-> AuthorOf(u), embedding |-> Embed(q),
     credibility_score |-> Absent, agreement_score |-> Absent,
     total_score |-> Absent]

\* the normalised hit dict VectorSearcher.search builds from a stored record
Hit(r) ==
    [id |-> Absent, query_text |-> r.query_text, summary |-> r.summary,
     url |-> r.url, domain |-> r.domain, author |-> r.author,
     embedding |-> r.embedding, credibility_score |-> Absent,
     agreement_score |-> Absent, total_score |-> Absent]

File(s) == [state |-> "ok", data |-> s]
CorruptFile == [state |-> "corrupt", data |-> <<>>]

\* json.dump(self.metadata): the current contents of the referenced dicts
Snapshot(h, meta) == [i \in 1..Len(meta) |-> h[meta[i]]]

(***************************************************************************)
(* vector_store/client.py                                                  *)
(***************************************************************************)

Call(op, records, result) ==
    [op |-> op, records |-> records, result |-> result]

\* the client object and its two files, as one value
Store == [index |-> vs_index, metadata |-> vs_metadata,
          disk_index |-> disk_index, disk_meta |-> disk_meta]

\* a load that only needs both files to be readable
LoadOk_IgnoreCounts(di, dm) ==
    /\ di.state # "corrupt"
    /\ dm.state # "corrupt"

\* _load_or_create succeeds: both files readable and the counts agree
LoadOk(di, dm) ==
    /\ di.state # "corrupt"
    /\ dm.state # "corrupt"
    /\ Len(di.data) = Len(dm.data)

\* state of the client object after __init__ on the given durable files;
\* the loaded dicts are fresh objects
load_or_create(di, dm) ==
    IF LoadOk(di, dm)
    THEN /\ heap' = dm.data
         /\ vs_index' = di.data
         /\ vs_metadata' = [i \in 1..Len(dm.data) |-> i]
         /\ vs_status' = "ready"
         /\ vs_call' = Call("load", <<>>, "returned")
    ELSE /\ heap' = <<>>
         /\ vs_index' = <<>>
         /\ vs_metadata' = <<>>
         /\ vs_status' = "load_failed"
         /\ vs_call' = Call("load", <<>>, "raised")

\* positions of the index ordered by descending inner product with vec
\* (ties keep insertion order)
Ranked(index, vec) ==
    LET pos == [i \in 1..Len(index) |-> i]
        Near(i) == InnerProduct(index[i], vec) = 1
        Far(i) == InnerProduct(index[i], vec) = 0
    IN  SelectSeq(pos, Near) \o SelectSeq(pos, Far)

\* VectorStoreClient.search: refs of the top_k nearest stored records
client_search(index, meta, vec, top_k) ==
    IF Len(index) = 0 THEN <<>>
    ELSE LET order == Ranked(index, vec)
             top == SubSeq(order, 1, Min(top_k, Len(order)))
         IN  [i \in 1..Len(top) |-> meta[top[i]]]

\* how a call of upsert can end: normally, or with an exception raised by
\* index.add, by faiss.write_index or while metadata.json is written; a
\* failed write leaves the file as it was or unreadable
UpsertOutcomes ==
    {[at |-> "ok", file |-> "written"],
     [at |-> "add", file |-> "kept"],
     [at |-> "write_index", file |-> "kept"],
     [at |-> "write_index", file |-> "corrupt"],
     [at |-> "write_meta", file |-> "kept"],
     [at |-> "write_meta", file |-> "corrupt"]}

NoFault == [at |-> "ok", file |-> "written"]

\* _persist on the given in-memory state
persist(st, h, index2, meta2, outcome) ==
    CASE outcome.at = "write_index" ->
           [index |-> index2, metadata |-> meta2,
            disk_index |-> IF outcome.file = "corrupt" THEN CorruptFile
                           ELSE st.disk_index,
            disk_meta |-> st.disk_meta, result |-> "raised"]
      [] outcome.at = "write_meta" ->
           [index |-> index2, metadata |-> meta2,
            disk_index |-> File(index2),
            disk_meta |-> IF outcome.file = "corrupt" THEN CorruptFile
                          ELSE st.disk_meta,
            result |-> "raised"]
      [] OTHER ->
           [index |-> index2, metadata |-> meta2,
            disk_index |-> File(index2),
            disk_meta |-> File(Snapshot(h, meta2)), result |-> "returned"]

\* upsert that adds the vectors but forgets to extend the metadata list
client_upsert_NoExtend(st, h, records, outcome) ==
    IF records = <<>> \/ outcome.at = "add"
    THEN [index |-> st.index, metadata |-> st.metadata,
          disk_index |-> st.disk_index, disk_meta |-> st.disk_meta,
          result |-> IF records = <<>> THEN "returned" ELSE "raised"]
    ELSE persist(st, h,
                 st.index \o
                   [i \in 1..Len(records) |-> h[records[i]].embedding],
                 st.metadata, outcome)

\* VectorStoreClient.upsert on store st with heap h: the store afterwards
\* and how the call ended
client_upsert(st, h, records, outcome) ==
    IF records = <<>>
    THEN [index |-> st.index, metadata |-> st.metadata,
          disk_index |-> st.disk_index, disk_meta |-> st.disk_meta,
          result |-> "returned"]
    ELSE IF outcome.at = "add"
    THEN [index |-> st.index, metadata |-> st.metadata,
          disk_index |-> st.disk_index, disk_meta |-> st.disk_meta,
          result |-> "raised"]
    ELSE LET index2 == st.index \o
                         [i \in 1..Len(records) |-> h[records[i]].embedding]
             meta2 == st.metadata \o records
         IN  persist(st, h, index2, meta2, outcome)

(***************************************************************************)
(* vector_store/upsert.py                                                  *)
(***************************************************************************)
\* a fingerprint taken from the record's id instead of its URL
fingerprint_ById(r) == <<r.id>>

\* lines 40-65: the identity of a record is its URL
fingerprint(r) == <<r.url>>

RECURSIVE FilterNew(_, _, _)
FilterNew(h, records, existing) ==
    IF records = <<>> THEN <<>>
    ELSE LET fp == fingerprint(h[Head(records)])
         IN  IF fp \in existing
             THEN FilterNew(h, Tail(records), existing)
             ELSE <<Head(records)>> \o
                  FilterNew(h, Tail(records), existing \cup {fp})

\* an upsert_summaries that hands the whole batch to the client
upsert_summaries_NoDedup(st, h, records, outcome) ==
    client_upsert(st, h, records, outcome)

upsert_summaries(st, h, records, outcome) ==
    LET existing == {fingerprint(h[st.metadata[i]]) :
                        i \in 1..Len(st.metadata)}
        new_records == FilterNew(h, records, existing)
    IN  IF new_records # <<>>
        THEN client_upsert(st, h, new_records, outcome)
        ELSE [index |-> st.index, metadata |-> st.metadata,
              disk_index |-> st.disk_index, disk_meta |-> st.disk_meta,
              result |-> "returned"]

\* the client's fields and files after a call that ended as res
StoreBecomes(res) ==
    /\ vs_index' = res.index
    /\ vs_metadata' = res.metadata
    /\ disk_index' = res.disk_index
    /\ disk_meta' = res.disk_meta

(***************************************************************************)
(* Initial state: the process has constructed VECTOR_CLIENT (app.py) from  *)
(* the durable files left by earlier sessions; no run has started.         *)
(***************************************************************************)
StoredRecord(q, u) ==
    [NewRecord(1, q, u) EXCEPT
        !.credibility_score = compute_summary_score(NewRecord(1, q, u))]

InitStores ==
    {<<>>,
     <<StoredRecord(1, 1)>>,
     <<StoredRecord(1, 1), StoredRecord(2, 2)>>}

\* no answer received from the equivalence judge in this round
NoJudgeAnswer == [parsed |-> FALSE, answer |-> <<>>, received |-> FALSE]

\* no answer received from the agreement LLM yet
NoAnswer == [parsed |-> FALSE, data |-> <<>>, received |-> FALSE]

\* no query generator has been called in this round
NoGeneratorInput == [kind |-> "none", summaries |-> <<>>]

\* a refinement generator that is given the plan only
GeneratorInput_PlanOnly(it) == [kind |-> "initial", summaries |-> <<>>]

\* lines 116-129: round 1 asks generate_initial_subqueries, which gets the
\* plan only; later rounds ask refine_queries, which gets
\* summary_map = {s["id"]: s["summary"] for s in summaries}
GeneratorInput(it) ==
    IF it = 1 THEN [kind |-> "initial", summaries |-> <<>>]
    ELSE [kind |-> "refine",
          summaries |->
             [i \in {heap[summaries[k]].id : k \in 1..Len(summaries)} |->
                 heap[CHOOSE r \in Range(summaries) : heap[r].id = i].summary]]

NoRoundLog == [q \in 1..QUERIES_PER_ITERATION |-> [path |-> "pending", rec |-> 0]]

RunInit ==
    /\ pc = "start"
    /\ max_iterations = 0
    /\ iteration = 0
    /\ qidx = 0
    /\ current_queries = <<>>
    /\ generator_input = NoGeneratorInput
    /\ retrieved_candidates = <<>>
    /\ selected_intents = <<>>
    /\ judge_raw = NoJudgeAnswer
    /\ summaries = <<>>
    /\ seen_urls = {}
    /\ sid_counter = 1
    /\ round_log = NoRoundLog
    /\ agreement_raw = NoAnswer
    /\ agreement_map = <<>>
    /\ conflicts = <<>>
    /\ removals = <<>>
    /\ trace = <<>>
    /\ returned = [done |-> FALSE, summaries |-> <<>>, report |-> FALSE]
    /\ error = "none"

Init ==
    /\ \E st \in InitStores :
          /\ disk_index = File([i \in 1..Len(st) |-> st[i].embedding])
          /\ disk_meta = File(st)
          /\ heap = st
          /\ vs_index = [i \in 1..Len(st) |-> st[i].embedding]
          /\ vs_metadata = [i \in 1..Len(st) |-> i]
    /\ vs_status = "ready"
    /\ vs_call = Call("load", <<>>, "returned")
    /\ RunInit

(***************************************************************************)
(* controller/run.py: run_pipeline                                         *)
(***************************************************************************)
MODES == [m \in {"quick", "standard", "deep"} |->
            [iterations |-> CASE m = "quick" -> 1
                              [] m = "standard" -> 2
                              [] OTHER -> 3,
             queries_per_iteration |-> QUERIES_PER_ITERATION]]

Log(e, n) == trace' = Append(trace, <<e, n>>)

Abort(e) == /\ pc' = "aborted"
            /\ error' = e

\* lines 81-93: locals are initialised, the mode is looked up
StartRun(mode) ==
    /\ pc = "start"
    /\ vs_status = "ready"
    /\ IF mode \in DOMAIN MODES
       THEN /\ MODES[mode].iterations <= MaxIterations
            /\ max_iterations' = MODES[mode].iterations
            /\ pc' = "plan"
            /\ error' = error
       ELSE /\ Abort("unknown_mode")
            /\ UNCHANGED max_iterations
    /\ UNCHANGED <<storeVars, roundVars, summaries, seen_urls, sid_counter,
                   agreement_raw, agreement_map, conflicts, removals, trace,
                   returned>>

\* a planning step that waits for its answer for ever
Plan_WaitsForever(ok) ==
    /\ pc = "plan"
    /\ UNCHANGED vars

\* lines 99-107: generate_research_plan returns a plan or raises
Plan(ok) ==
    /\ pc = "plan"
    /\ IF ok
       THEN /\ Log("research_plan", 0)
            /\ pc' = "gen_queries"
            /\ error' = error
       ELSE /\ Abort("research_plan")
            /\ UNCHANGED trace
    /\ UNCHANGED <<storeVars, roundVars, max_iterations, summaries, seen_urls,
                   sid_counter, agreement_raw, agreement_map, conflicts,
                   removals, returned>>

\* a parser that checks the number of queries but does not cut the list
ParseQueries_NoCut(lines, n) ==
    IF Len(lines) < n THEN [ok |-> FALSE, queries |-> <<>>]
    ELSE [ok |-> TRUE, queries |-> lines]

\* subqueries.py 128-140 and coverage_refiner.py 140-150: the non-empty
\* lines of the generator's answer, at least n or ValueError, cut to n
ParseQueries(lines, n) ==
    IF Len(lines) < n THEN [ok |-> FALSE, queries |-> <<>>]
    ELSE [ok |-> TRUE, queries |-> SubSeq(lines, 1, n)]

\* answers of a query generator: too few lines, exactly n, more than n
GeneratorLines == {<<1>>, <<1, 2>>, <<1, 1, 2>>}

\* lines 113-143: head of the loop, the round's queries are generated
GenerateQueries(lines) ==
    /\ pc = "gen_queries"
    /\ iteration < max_iterations
    /\ LET res == ParseQueries(lines, QUERIES_PER_ITERATION)
           it == iteration + 1
       IN  IF res.ok
           THEN /\ iteration' = it
                /\ current_queries' = res.queries
                /\ retrieved_candidates' = <<>>
                /\ trace' = IF it = 1
                            THEN Append(trace, <<"iteration_start", it>>)
                            ELSE trace \o <<<<"coverage_refinement", it>>,
                                            <<"iteration_start", it>>>>
                /\ pc' = "vector_search"
                /\ error' = error
           ELSE /\ iteration' = it
                /\ Abort(IF it = 1 THEN "initial_subqueries"
                                   ELSE "refine_queries")
                /\ UNCHANGED <<current_queries, retrieved_candidates, trace>>
    /\ generator_input' = GeneratorInput(iteration + 1)
    /\ UNCHANGED <<storeVars, qidx, selected_intents, judge_raw,
                   round_log,
                   max_iterations, summaries, seen_urls, sid_counter,
                   agreement_raw, agreement_map, conflicts, removals, returned>>

\* lines 157-169: hits whose URL was already used are dropped
FilterSeen(hits, seen) ==
    LET Unseen(h) == h.url \notin seen
    IN  SelectSeq(hits, Unseen)

\* lines 152-155 with VectorSearcher.search: normalised copies of the hits
SearchHits(q) ==
    LET refs == client_search(vs_index, vs_metadata, Embed(q), VECTOR_TOP_K)
    IN  [i \in 1..Len(refs) |-> Hit(heap[refs[i]])]

\* CrossEncoderReranker.rerank keeps the top_k best-scoring candidates;
\* which ones score best is the cross-encoder's choice
RerankChoices(n) ==
    {S \in SUBSET (1..n) : Cardinality(S) = Min(n, CROSS_TOP_K)}

\* lines 149-210 for one query: vs_map restricted to the reranked ids
CandidateMaps(q) ==
    LET hits == FilterSeen(SearchHits(q), seen_urls)
    IN  IF hits = <<>> THEN {}
        ELSE {[v \in S |-> hits[v]] : S \in RerankChoices(Len(hits))}

\* lines 143-210: vector search, URL filter and rerank for every query
VectorSearch ==
    /\ pc = "vector_search"
    /\ \E rc \in [1..Len(current_queries) ->
                    UNION {CandidateMaps(q) \cup {<<>>} : q \in QueryTexts}] :
          /\ \A k \in 1..Len(current_queries) :
                IF CandidateMaps(current_queries[k]) = {}
                THEN rc[k] = <<>>
                ELSE rc[k] \in CandidateMaps(current_queries[k])
          /\ retrieved_candidates' = rc
    /\ pc' = "intent_selection"
    /\ UNCHANGED <<storeVars, iteration, qidx, current_queries,
                   generator_input,
                   selected_intents, judge_raw, round_log, max_iterations,
                   summaries,
                   seen_urls, sid_counter, agreement_raw, agreement_map,
                   conflicts, removals,
                   trace, returned, error>>

\* select_best_intents (intent_selector.py 171-190): an answer that does not
\* parse gives None for every query; otherwise the parsed answer, with None
\* for missing keys.  0 stands for None, v > 0 for the id VS_v.
JudgeAnswers ==
    {[parsed |-> FALSE, answer |-> <<>>]} \cup
    {[parsed |-> TRUE, answer |-> a] :
        a \in {b \in [1..Len(current_queries) -> 0..(CROSS_TOP_K + 1)] :
                 \A k \in DOMAIN b :
                    /\ k \in DOMAIN retrieved_candidates
                    /\ b[k] <= Cardinality(DOMAIN retrieved_candidates[k]) + 1}}

\* lines 216-230
SelectIntents(raw) ==
    /\ pc = "intent_selection"
    /\ judge_raw' = [parsed |-> raw.parsed, answer |-> raw.answer,
                     received |-> TRUE]
    /\ selected_intents' = IF raw.parsed THEN raw.answer
                           ELSE [k \in 1..Len(current_queries) |-> 0]
    /\ round_log' = NoRoundLog
    /\ qidx' = 1
    /\ Log("intent_selection", iteration)
    /\ pc' = "query"
    /\ UNCHANGED <<storeVars, iteration, current_queries, generator_input,
                   retrieved_candidates, max_iterations, summaries, seen_urls,
                   sid_counter, agreement_raw, agreement_map, conflicts,
                   removals, returned,
                   error>>

\* reuse that does not look at the URLs already used
CanReuse_IgnoreSeen(vs_id, cands, seen) ==
    /\ vs_id # 0
    /\ DOMAIN cands # {}
    /\ vs_id \in DOMAIN cands

\* lines 240-244: the record the judge chose for the query, if any, may be
\* reused when its URL has not been used in this run
CanReuse(vs_id, cands, seen) ==
    /\ vs_id # 0
    /\ DOMAIN cands # {}
    /\ vs_id \in DOMAIN cands
    /\ cands[vs_id].url \notin seen

\* a loop that tries a query again as long as it has yielded no record
NextQuery_Retry ==
    IF round_log'[qidx].rec = 0
    THEN qidx' = qidx /\ pc' = "query"
    ELSE IF qidx < Len(current_queries)
    THEN qidx' = qidx + 1 /\ pc' = "query"
    ELSE qidx' = qidx /\ pc' = "iteration_end"

\* lines 236 and 339: the for loop moves on to the next query of the round
NextQuery ==
    IF qidx < Len(current_queries)
    THEN qidx' = qidx + 1 /\ pc' = "query"
    ELSE qidx' = qidx /\ pc' = "iteration_end"

\* a reuse that takes the stored dict itself instead of a copy of the hit
ReuseQuery_NoCopy ==
    /\ pc = "query"
    /\ CanReuse(selected_intents[qidx], retrieved_candidates[qidx], seen_urls)
    /\ LET record == retrieved_candidates[qidx][selected_intents[qidx]]
           r1 == [record EXCEPT !.id = sid_counter]
           r == [r1 EXCEPT !.credibility_score = compute_summary_score(r1)]
           ref == CHOOSE i \in Range(vs_metadata) : heap[i].url = record.url
       IN  /\ heap' = [heap EXCEPT ![ref] = r]
           /\ summaries' = Append(summaries, ref)
           /\ seen_urls' = seen_urls \cup {record.url}
           /\ sid_counter' = sid_counter + 1
           /\ round_log' = [round_log EXCEPT
                               ![qidx] = [path |-> "reuse", rec |-> ref]]
    /\ NextQuery
    /\ UNCHANGED <<vs_index, vs_metadata, disk_index, disk_meta, vs_status,
                   vs_call, iteration, current_queries, generator_input,
                   retrieved_candidates, selected_intents, judge_raw,
                   max_iterations,
                   agreement_raw, agreement_map, conflicts, removals, trace,
                   returned, error>>

\* lines 236-254: vector reuse
ReuseQuery ==
    /\ pc = "query"
    /\ CanReuse(selected_intents[qidx], retrieved_candidates[qidx], seen_urls)
    /\ LET record == retrieved_candidates[qidx][selected_intents[qidx]]
           r1 == [record EXCEPT !.id = sid_counter]
           r == [r1 EXCEPT !.credibility_score = compute_summary_score(r1)]
           ref == Len(heap) + 1
       IN  /\ heap' = Append(heap, r)
           /\ summaries' = Append(summaries, ref)
           /\ seen_urls' = seen_urls \cup {record.url}
           /\ sid_counter' = sid_counter + 1
           /\ round_log' = [round_log EXCEPT
                               ![qidx] = [path |-> "reuse", rec |-> ref]]
    /\ NextQuery
    /\ UNCHANGED <<vs_index, vs_metadata, disk_index, disk_meta, vs_status,
                   vs_call, iteration, current_queries, generator_input,
                   retrieved_candidates, selected_intents, judge_raw,
                   max_iterations,
                   agreement_raw, agreement_map, conflicts, removals, trace,
                   returned, error>>

\* what search_web may return: up to max_results results, with or without URL
WebResults ==
    UNION {[1..k -> URLS \cup {NoUrl}] :
              k \in 0..Min(MaxWebResults, MAX_RESULTS)}

\* lines 268-336: the ways the scan of the results can end.  A result with a
\* missing or used URL is skipped; for any other result the extraction
\* either raises, or yields too little text (next result), or the result
\* is accepted (possibly with generate_summary raising).
RECURSIVE WebOutcomes(_, _)
WebOutcomes(results, seen) ==
    IF results = <<>> THEN {[kind |-> "none", url |-> NoUrl]}
    ELSE LET u == Head(results)
         IN  IF u = NoUrl \/ u \in seen
             THEN WebOutcomes(Tail(results), seen)
             ELSE {[kind |-> "accept", url |-> u],
                   [kind |-> "raise", url |-> u]}
                  \cup WebOutcomes(Tail(results), seen)

\* web ingestion that does not skip results whose URL was already used
IngestionOutcomes_IgnoreSeen(seen) ==
    {[kind |-> "search_failed", url |-> NoUrl]} \cup
    UNION {WebOutcomes(results, {}) : results \in WebResults}

\* every way web ingestion of one query can end: search_web raises, or it
\* returns some result list whose scan ends in one of the ways above
IngestionOutcomes(seen) ==
    {[kind |-> "search_failed", url |-> NoUrl]} \cup
    UNION {WebOutcomes(results, seen) : results \in WebResults}

\* lines 262-339: web ingestion
WebQuery(o, upsertOutcome) ==
    /\ pc = "query"
    /\ ~CanReuse(selected_intents[qidx], retrieved_candidates[qidx],
                 seen_urls)
    /\ IF o.kind = "search_failed"
       THEN /\ Abort("search_web")
            /\ round_log' = [round_log EXCEPT
                                ![qidx] = [path |-> "web", rec |-> 0]]
            /\ UNCHANGED <<storeVars, qidx, summaries, seen_urls,
                           sid_counter>>
       ELSE
       /\ CASE o.kind = "none" ->
                 /\ round_log' = [round_log EXCEPT
                                     ![qidx] = [path |-> "web", rec |-> 0]]
                 /\ NextQuery
                 /\ error' = error
                 /\ UNCHANGED <<storeVars, summaries, seen_urls, sid_counter>>
            [] o.kind = "raise" ->
                 /\ round_log' = [round_log EXCEPT
                                     ![qidx] = [path |-> "web", rec |-> 0]]
                 /\ Abort("ingestion")
                 /\ UNCHANGED <<storeVars, qidx, summaries, seen_urls,
                                sid_counter>>
            [] OTHER ->
                 LET r1 == NewRecord(sid_counter, current_queries[qidx],
                                     o.url)
                     record == [r1 EXCEPT !.credibility_score =
                                             compute_summary_score(r1)]
                     ref == Len(heap) + 1
                     h == Append(heap, record)
                     res == upsert_summaries(Store, h, <<ref>>,
                                             upsertOutcome)
                 IN  /\ heap' = h
                     /\ sid_counter' = sid_counter + 1
                     /\ summaries' = Append(summaries, ref)
                     /\ seen_urls' = seen_urls \cup {o.url}
                     /\ StoreBecomes(res)
                     /\ vs_call' = Call("upsert_summaries", <<record>>,
                                        res.result)
                     /\ vs_status' = vs_status
                     /\ round_log' = [round_log EXCEPT
                                         ![qidx] = [path |-> "web",
                                                    rec |-> ref]]
                     /\ IF vs_call'.result = "raised"
                        THEN Abort("upsert") /\ qidx' = qidx
                        ELSE NextQuery /\ error' = error
    /\ UNCHANGED <<iteration, current_queries, generator_input,
                   retrieved_candidates,
                   selected_intents, judge_raw, max_iterations, agreement_raw,
                   agreement_map, conflicts,
                   removals, trace, returned>>

\* a loop that is left after its first round whatever the mode asks for
EndRound_LeaveAfterFirst ==
    /\ pc = "iteration_end"
    /\ Log("iteration_end", iteration)
    /\ pc' = "post_rounds"
    /\ qidx' = 0
    /\ retrieved_candidates' = <<>>
    /\ selected_intents' = <<>>
    /\ judge_raw' = NoJudgeAnswer
    /\ round_log' = NoRoundLog
    /\ generator_input' = NoGeneratorInput
    /\ UNCHANGED <<storeVars, iteration, current_queries, max_iterations,
                   summaries, seen_urls, sid_counter, agreement_raw,
                   agreement_map, conflicts, removals, returned, error>>

\* line 341 and the loop test of line 113; the locals of the loop body are
\* not read again before they are reassigned
EndRound ==
    /\ pc = "iteration_end"
    /\ Log("iteration_end", iteration)
    /\ pc' = IF iteration < max_iterations THEN "gen_queries"
             ELSE "post_rounds"
    /\ qidx' = 0
    /\ retrieved_candidates' = <<>>
    /\ selected_intents' = <<>>
    /\ judge_raw' = NoJudgeAnswer
    /\ round_log' = NoRoundLog
    /\ generator_input' = NoGeneratorInput
    /\ UNCHANGED <<storeVars, iteration, current_queries, max_iterations,
                   summaries, seen_urls, sid_counter, agreement_raw,
                   agreement_map,
                   conflicts, removals, returned, error>>

(***************************************************************************)
(* Scoring: analytics/agreement_detector.py, scoring/agreement_scorer.py   *)
(***************************************************************************)
ALLOWED_LABELS == {"strongly_supports", "partially_supports", "independent"}

\* labels a detector may answer with: the allowed ones and a foreign one
AnswerLabels == ALLOWED_LABELS \cup {"contradicts"}

AGREEMENT_WEIGHTS(label) ==
    CASE label = "strongly_supports" -> 5
      [] label = "partially_supports" -> 3
      [] label = "independent" -> 1
      [] OTHER -> 0

\* ids of the run's records
RunIds == {heap[summaries[i]].id : i \in 1..Len(summaries)}

\* ids an external capability may mention: the run's and one foreign id
AnswerIds == RunIds \cup {sid_counter}

\* the subsets of S with at most n elements
RECURSIVE SubsetsUpTo(_, _)
SubsetsUpTo(S, n) ==
    IF n = 0 THEN {{}}
    ELSE LET smaller == SubsetsUpTo(S, n - 1)
         IN  smaller \cup {T \cup {x} : T \in smaller, x \in S}

\* the detector's answer: text that does not parse, or a response
\* {src: {tgt: label}} with at most n entries, as a function from
\* <<src, tgt>> to label
AgreementResponses(n) ==
    {[parsed |-> FALSE, data |-> <<>>]} \cup
    {[parsed |-> TRUE, data |-> d] :
        d \in UNION {[P -> AnswerLabels] :
                        P \in SubsetsUpTo(AnswerIds \X AnswerIds, n)}}

\* the answers explored within a full run: at most one relation, between
\* the first two records, a self-loop or a foreign id
RunAgreementResponses ==
    {a \in AgreementResponses(1) :
        \A p \in DOMAIN a.data :
            /\ p[1] \in {1, 2}
            /\ p[2] \in {1, 2, sid_counter}
            /\ a.data[p] \in {"strongly_supports", "contradicts"}}

\* a validation that lets a record relate to itself
ValidAgreement_AllowSelf(data, ids) ==
    \A p \in DOMAIN data :
        /\ p[1] \in ids
        /\ p[2] \in ids
        /\ data[p] \in ALLOWED_LABELS

\* detect_agreements 180-203: the validation of the parsed response
ValidAgreement(data, ids) ==
    \A p \in DOMAIN data :
        /\ p[1] \in ids
        /\ p[2] \in ids
        /\ p[1] # p[2]
        /\ data[p] \in ALLOWED_LABELS

RECURSIVE SumWeights(_, _)
SumWeights(m, P) ==
    IF P = {} THEN 0
    ELSE LET p == CHOOSE x \in P : TRUE
         IN  AGREEMENT_WEIGHTS(m[p]) + SumWeights(m, P \ {p})

\* a scorer that credits the source of a relation instead of its target
compute_agreement_scores_CreditSource(m) ==
    [i \in {p[1] : p \in DOMAIN m} \cup {p[2] : p \in DOMAIN m} |->
        SumWeights(m, {p \in DOMAIN m : p[1] = i})]

\* compute_agreement_scores: every id mentioned gets the sum of the weights
\* of the relations pointing at it
compute_agreement_scores(m) ==
    [i \in {p[1] : p \in DOMAIN m} \cup {p[2] : p \in DOMAIN m} |->
        SumWeights(m, {p \in DOMAIN m : p[2] = i})]

\* dict.get(key, default)
Get(f, k, default) == IF k \in DOMAIN f THEN f[k] ELSE default

\* dict[key] = value
Put(f, k, v) == [x \in DOMAIN f \cup {k} |-> IF x = k THEN v ELSE f[x]]

\* an early return taken only when no record at all was collected
PostRounds_OnlyWhenEmpty ==
    /\ pc = "post_rounds"
    /\ IF Len(summaries) < 1
       THEN /\ Log("pipeline_complete", 0)
            /\ returned' = [done |-> TRUE, summaries |-> summaries,
                            report |-> FALSE]
            /\ pc' = "done"
       ELSE /\ pc' = "agreement"
            /\ UNCHANGED <<trace, returned>>
    /\ UNCHANGED <<storeVars, roundVars, max_iterations, summaries, seen_urls,
                   sid_counter, agreement_raw, agreement_map, conflicts,
                   removals, error>>

\* lines 347-349: with fewer than two records the run returns early
PostRounds ==
    /\ pc = "post_rounds"
    /\ IF Len(summaries) < MIN_RECORDS_FOR_SCORING
       THEN /\ Log("pipeline_complete", 0)
            /\ returned' = [done |-> TRUE, summaries |-> summaries,
                            report |-> FALSE]
            /\ pc' = "done"
       ELSE /\ pc' = "agreement"
            /\ UNCHANGED <<trace, returned>>
    /\ UNCHANGED <<storeVars, roundVars, max_iterations, summaries, seen_urls,
                   sid_counter, agreement_raw, agreement_map, conflicts,
                   removals, error>>

\* lines 351-355: detect_agreements parses and validates the response
DetectAgreements(raw) ==
    /\ pc = "agreement"
    /\ agreement_raw' = [parsed |-> raw.parsed, data |-> raw.data,
                         received |-> TRUE]
    /\ IF raw.parsed /\ ValidAgreement(raw.data, RunIds)
       THEN /\ agreement_map' = raw.data
            /\ Log("agreement_map", 0)
            /\ pc' = "scores"
            /\ error' = error
       ELSE /\ Abort("agreement_validation")
            /\ UNCHANGED <<agreement_map, trace>>
    /\ UNCHANGED <<storeVars, roundVars, max_iterations, summaries, seen_urls,
                   sid_counter, conflicts, removals, returned>>

\* a score assignment that forgets the credibility score
Scored_AgreementOnly(r, scores) ==
    LET agr == Get(scores, r.id, 0)
    IN  [r EXCEPT !.agreement_score = agr, !.total_score = agr]

\* lines 359-363 applied to one record
Scored(r, scores) ==
    LET agr == Get(scores, r.id, 0)
        cred == IF r.credibility_score = Absent THEN 0
                ELSE r.credibility_score
    IN  [r EXCEPT !.agreement_score = agr, !.total_score = cred + agr]

\* lines 357-365
AssignScores ==
    /\ pc = "scores"
    /\ LET scores == compute_agreement_scores(agreement_map)
       IN  heap' = [ref \in DOMAIN heap |->
                       IF ref \in Range(summaries)
                       THEN Scored(heap[ref], scores) ELSE heap[ref]]
    /\ Log("total_scores", 0)
    /\ pc' = "conflicts"
    /\ UNCHANGED <<vs_index, vs_metadata, disk_index, disk_meta, vs_status,
                   vs_call, roundVars, max_iterations, summaries,
                   seen_urls, sid_counter, agreement_raw, agreement_map,
                   conflicts, removals,
                   returned, error>>

(***************************************************************************)
(* Conflicts: analytics/conflict_detector.py, conflict_resolver.py,        *)
(* summary_rewriter.py                                                     *)
(***************************************************************************)
\* the k-th conflict of a response; its claims are the texts 10k+1, 10k+2
Conflict(k, ids) == [ids |-> ids, claim_a |-> 10 * k + 1,
                     claim_b |-> 10 * k + 2]

ConflictIdLists ==
    UNION {[1..k -> AnswerIds] : k \in 1..3}

\* the detector's answer: text that does not parse, or a response with at
\* most n conflicts
ConflictResponses(n) ==
    {[parsed |-> FALSE, list |-> <<>>]} \cup
    {[parsed |-> TRUE, list |-> l] :
        l \in UNION {{[k \in 1..len |-> Conflict(k, idl[k])] :
                        idl \in [1..len -> ConflictIdLists]} : len \in 0..n}}

\* the answers explored within a full run: no conflict, or one between the
\* first two records
RunConflictResponses ==
    {a \in ConflictResponses(1) :
        \A k \in DOMAIN a.list : a.list[k].ids = <<1, 2>>}

\* resolve_conflicts 63-100, with the removals collected so far
RECURSIVE ResolveFrom(_, _, _)
ResolveFrom(cs, scores, acc) ==
    IF cs = <<>> THEN acc
    ELSE LET conflict == Head(cs)
             ids == conflict.ids
         IN  IF Len(ids) # 2 THEN ResolveFrom(Tail(cs), scores, acc)
             ELSE LET s1 == ids[1]
                      s2 == ids[2]
                      score1 == Get(scores, s1, 0)
                      score2 == Get(scores, s2, 0)
                      loser == IF score1 > score2 THEN s2 ELSE s1
                      claim == IF score1 > score2 THEN conflict.claim_b
                               ELSE conflict.claim_a
                  IN  IF score1 = score2
                      THEN ResolveFrom(Tail(cs), scores, acc)
                      ELSE ResolveFrom(Tail(cs), scores,
                               Put(acc, loser,
                                   Append(Get(acc, loser, <<>>), claim)))

\* resolvers that differ from resolve_conflicts: with swap the loser gives
\* up the other side's claim, with tieLoses a tie costs the first id its claim
RECURSIVE ResolveVariant(_, _, _, _, _)
ResolveVariant(cs, scores, acc, swap, tieLoses) ==
    IF cs = <<>> THEN acc
    ELSE LET conflict == Head(cs)
             ids == conflict.ids
         IN  IF Len(ids) # 2
             THEN ResolveVariant(Tail(cs), scores, acc, swap, tieLoses)
             ELSE LET score1 == Get(scores, ids[1], 0)
                      score2 == Get(scores, ids[2], 0)
                      first == score1 <= score2
                      loser == IF first THEN ids[1] ELSE ids[2]
                      claim == IF first = swap THEN conflict.claim_b
                               ELSE conflict.claim_a
                  IN  IF score1 = score2 /\ ~tieLoses
                      THEN ResolveVariant(Tail(cs), scores, acc, swap,
                                          tieLoses)
                      ELSE ResolveVariant(Tail(cs), scores,
                               Put(acc, loser,
                                   Append(Get(acc, loser, <<>>), claim)),
                               swap, tieLoses)

\* a resolver that removes the winner's claim from the loser's record
resolve_conflicts_SwappedClaims(cs, scores) ==
    ResolveVariant(cs, scores, <<>>, TRUE, FALSE)

resolve_conflicts(cs, scores) == ResolveFrom(cs, scores, <<>>)

\* line 375: {s["id"]: s["total_score"] for s in summaries}
TotalScores ==
    [i \in RunIds |->
        LET ref == CHOOSE r \in Range(summaries) : heap[r].id = i
        IN  heap[ref].total_score]

\* lines 367-371: detect_conflicts returns the parsed response or raises
DetectConflicts(raw) ==
    /\ pc = "conflicts"
    /\ IF raw.parsed
       THEN /\ conflicts' = raw.list
            /\ Log("conflicts", 0)
            /\ pc' = "resolve"
            /\ error' = error
       ELSE /\ Abort("conflict_detector")
            /\ UNCHANGED <<conflicts, trace>>
    /\ UNCHANGED <<storeVars, roundVars, max_iterations, summaries, seen_urls,
                   sid_counter, agreement_raw, agreement_map, removals,
                   returned>>

\* a resolution in which a tie costs the first id its claim
ResolveConflicts_TieLoses ==
    /\ pc = "resolve"
    /\ removals' = ResolveVariant(conflicts, TotalScores, <<>>, FALSE, TRUE)
    /\ Log("conflict_resolutions", 0)
    /\ pc' = "rewrite"
    /\ UNCHANGED <<storeVars, roundVars, max_iterations, summaries, seen_urls,
                   sid_counter, agreement_raw, agreement_map, conflicts,
                   returned, error>>

\* lines 373-378
ResolveConflicts ==
    /\ pc = "resolve"
    /\ removals' = resolve_conflicts(conflicts, TotalScores)
    /\ Log("conflict_resolutions", 0)
    /\ pc' = "rewrite"
    /\ UNCHANGED <<storeVars, roundVars, max_iterations, summaries, seen_urls,
                   sid_counter, agreement_raw, agreement_map, conflicts,
                   returned, error>>

\* what rewrite_summaries may do: raise, or return texts for any set of ids
RewriteResponses ==
    {[ok |-> FALSE, rewritten |-> <<>>]} \cup
    {[ok |-> TRUE, rewritten |-> f] :
        f \in UNION {[K -> {RewrittenText}] : K \in SUBSET AnswerIds}}

\* the answers explored within a full run: texts for exactly the ids of the
\* plan, or for none
RunRewriteResponses ==
    {a \in RewriteResponses : DOMAIN a.rewritten \in {{}, DOMAIN removals}}

\* lines 393-400 applied to one record
Rewritten(r, rewritten) ==
    IF r.id \in DOMAIN rewritten
    THEN [r EXCEPT !.summary = rewritten[r.id]] ELSE r

\* the ids a call of the rewriter is given, written as a bit mask (S1 is
\* bit 0, S2 is bit 1, ...)
RECURSIVE PlanCode(_)
PlanCode(ids) ==
    IF ids = {} THEN 0
    ELSE LET i == CHOOSE x \in ids : TRUE
         IN  2 ^ (i - 1) + PlanCode(ids \ {i})

\* a rewrite step that calls the rewriter even when the plan is empty
Rewrite_CallsOnEmptyPlan(raw) ==
    /\ pc = "rewrite"
    /\ IF DOMAIN removals = {}
       THEN /\ pc' = "report"
            /\ Log("rewrite_call", PlanCode(DOMAIN removals))
            /\ UNCHANGED <<heap, error>>
       ELSE IF ~(DOMAIN removals \subseteq RunIds)
       THEN /\ Abort("rewrite_plan")
            /\ UNCHANGED <<heap, trace>>
       ELSE IF ~raw.ok
       THEN /\ Abort("rewrite_summaries")
            /\ Log("rewrite_call", PlanCode(DOMAIN removals))
            /\ UNCHANGED heap
       ELSE /\ heap' = [ref \in DOMAIN heap |->
                           IF ref \in Range(summaries)
                           THEN Rewritten(heap[ref], raw.rewritten)
                           ELSE heap[ref]]
            /\ Log("rewrite_call", PlanCode(DOMAIN removals))
            /\ pc' = "report"
            /\ error' = error
    /\ UNCHANGED <<vs_index, vs_metadata, disk_index, disk_meta, vs_status,
                   vs_call, roundVars, max_iterations, summaries,
                   seen_urls, sid_counter, agreement_raw, agreement_map,
                   conflicts, removals,
                   returned>>

\* lines 380-400: the rewrite plan is built (a removal for an id that no
\* record has makes next() raise), the rewriter is called once with the
\* whole plan, and the texts it returns replace the summaries
Rewrite(raw) ==
    /\ pc = "rewrite"
    /\ IF DOMAIN removals = {}
       THEN /\ pc' = "report"
            /\ UNCHANGED <<heap, trace, error>>
       ELSE IF ~(DOMAIN removals \subseteq RunIds)
       THEN /\ Abort("rewrite_plan")
            /\ UNCHANGED <<heap, trace>>
       ELSE IF ~raw.ok
       THEN /\ Abort("rewrite_summaries")
            /\ Log("rewrite_call", PlanCode(DOMAIN removals))
            /\ UNCHANGED heap
       ELSE /\ heap' = [ref \in DOMAIN heap |->
                           IF ref \in Range(summaries)
                           THEN Rewritten(heap[ref], raw.rewritten)
                           ELSE heap[ref]]
            /\ Log("rewrite_call", PlanCode(DOMAIN removals))
            /\ pc' = "report"
            /\ error' = error
    /\ UNCHANGED <<vs_index, vs_metadata, disk_index, disk_meta, vs_status,
                   vs_call, roundVars, max_iterations, summaries,
                   seen_urls, sid_counter, agreement_raw, agreement_map,
                   conflicts, removals,
                   returned>>

\* a final step that hands the records over without the first one
Report_DropFirst(ok) ==
    /\ pc = "report"
    /\ IF ok
       THEN /\ Log("pipeline_complete", 0)
            /\ returned' = [done |-> TRUE, summaries |-> Tail(summaries),
                            report |-> TRUE]
            /\ pc' = "done"
            /\ error' = error
       ELSE /\ Abort("report")
            /\ UNCHANGED <<trace, returned>>
    /\ UNCHANGED <<storeVars, roundVars, max_iterations, summaries, seen_urls,
                   sid_counter, agreement_raw, agreement_map, conflicts,
                   removals>>

\* lines 406-445: report, PDF and evaluation are produced by external
\* capabilities; then the records are returned in creation order
Report(ok) ==
    /\ pc = "report"
    /\ IF ok
       THEN /\ Log("pipeline_complete", 0)
            /\ returned' = [done |-> TRUE, summaries |-> summaries,
                            report |-> TRUE]
            /\ pc' = "done"
            /\ error' = error
       ELSE /\ Abort("report")
            /\ UNCHANGED <<trace, returned>>
    /\ UNCHANGED <<storeVars, roundVars, max_iterations, summaries, seen_urls,
                   sid_counter, agreement_raw, agreement_map, conflicts,
                   removals>>

(***************************************************************************)
(* The run of one request.                                                 *)
(***************************************************************************)
Next ==
    \/ \E mode \in {"quick", "standard", "deep", "unknown"} : StartRun(mode)
    \/ \E ok \in BOOLEAN : Plan(ok)
    \/ \E lines \in GeneratorLines : GenerateQueries(lines)
    \/ VectorSearch
    \/ pc = "intent_selection" /\ \E raw \in JudgeAnswers : SelectIntents(raw)
    \/ ReuseQuery
    \/ pc = "query" /\ \E o \in IngestionOutcomes(seen_urls) :
         \E uo \in IF o.kind = "accept" THEN UpsertOutcomes
                   ELSE {[at |-> "ok", file |-> "written"]} : WebQuery(o, uo)
    \/ EndRound
    \/ PostRounds
    \/ pc = "agreement" /\ \E raw \in RunAgreementResponses :
         DetectAgreements(raw)
    \/ AssignScores
    \/ pc = "conflicts" /\ \E raw \in RunConflictResponses :
         DetectConflicts(raw)
    \/ ResolveConflicts
    \/ pc = "rewrite" /\ \E raw \in RunRewriteResponses : Rewrite(raw)
    \/ \E ok \in BOOLEAN : Report(ok)

Spec == Init /\ [][Next]_vars

\* run_pipeline is one sequential thread: as long as a statement is left
\* to execute, and every external call returns or raises, the next step
\* is taken.  The runs start on a store of one record, which lets a query
\* be settled by reuse as well as by web ingestion.
InitLive == Init /\ Len(vs_metadata) = 1

SpecLive == InitLive /\ [][Next]_vars /\ WF_vars(Next)

(***************************************************************************)
(* The vector store on its own: any sequence of upsert calls, direct or    *)
(* through upsert_summaries, interleaved with restarts of the process.     *)
(***************************************************************************)
QueryOf(u) == ((u - 1) % 2) + 1

\* record dicts a caller hands to the store
CallerRecords == {StoredRecord(QueryOf(u), u) : u \in URLS}

Batches == UNION {[1..k -> CallerRecords] : k \in 0..MaxBatch}

\* the caller drops its references after the call: only stored dicts stay
KeepStored(h, res) ==
    /\ heap' = [i \in 1..Len(res.metadata) |-> h[res.metadata[i]]]
    /\ vs_metadata' = [i \in 1..Len(res.metadata) |-> i]
    /\ vs_index' = res.index
    /\ disk_index' = res.disk_index
    /\ disk_meta' = res.disk_meta

\* client.upsert(batch)
DirectUpsert(batch, outcome) ==
    /\ pc = "start"
    /\ vs_status = "ready"
    /\ Len(vs_metadata) + Len(batch) <= MaxStore
    /\ LET h == heap \o batch
           refs == [i \in 1..Len(batch) |-> Len(heap) + i]
           res == client_upsert(Store, h, refs, outcome)
       IN  /\ KeepStored(h, res)
           /\ vs_call' = Call("upsert", batch, res.result)
    /\ UNCHANGED <<vs_status, roundVars, runVars>>

\* upsert_summaries(client, batch)
DedupUpsert(batch, outcome) ==
    /\ pc = "start"
    /\ vs_status = "ready"
    /\ Len(vs_metadata) + Len(batch) <= MaxStore
    /\ LET h == heap \o batch
           refs == [i \in 1..Len(batch) |-> Len(heap) + i]
           res == upsert_summaries(Store, h, refs, outcome)
       IN  /\ KeepStored(h, res)
           /\ vs_call' = Call("upsert_summaries", batch, res.result)
    /\ UNCHANGED <<vs_status, roundVars, runVars>>

\* the process is started again: VectorStoreClient.__init__
Restart ==
    /\ pc = "start"
    /\ load_or_create(disk_index, disk_meta)
    /\ UNCHANGED <<disk_index, disk_meta, roundVars, runVars>>

NextVS ==
    \/ \E batch \in Batches : \E uo \in UpsertOutcomes :
         DirectUpsert(batch, uo)
    \/ \E batch \in Batches : \E uo \in UpsertOutcomes :
         DedupUpsert(batch, uo)
    \/ Restart

SpecVS == Init /\ [][NextVS]_vars

(***************************************************************************)
(* Scoring on its own: the run has finished its rounds with n freshly      *)
(* ingested records; the agreement detector may answer anything.           *)
(***************************************************************************)
\* the sequences of n distinct URLs
UrlLists(n) == {l \in [1..n -> URLS] : \A i, j \in 1..n : i # j => l[i] # l[j]}

IngestedRecord(k, u) ==
    [NewRecord(k, QueryOf(k), u) EXCEPT
        !.credibility_score = compute_summary_score(NewRecord(k, QueryOf(k),
        u))]

RoundsTrace ==
    <<<<"research_plan", 0>>, <<"iteration_start", 1>>,
      <<"intent_selection", 1>>, <<"iteration_end", 1>>,
      <<"coverage_refinement", 2>>, <<"iteration_start", 2>>,
      <<"intent_selection", 2>>, <<"iteration_end", 2>>>>

InitScoring ==
    /\ \E n \in 1..Min(MaxUrl, 2 * QUERIES_PER_ITERATION) :
         \E urls \in UrlLists(n) :
           LET recs == [k \in 1..n |-> IngestedRecord(k, urls[k])]
           IN  /\ heap = recs
               /\ vs_index = [k \in 1..n |-> recs[k].embedding]
               /\ vs_metadata = [k \in 1..n |-> k]
               /\ disk_index = File([k \in 1..n |-> recs[k].embedding])
               /\ disk_meta = File(recs)
               /\ vs_call = Call("upsert_summaries", <<recs[n]>>, "returned")
               /\ summaries = [k \in 1..n |-> k]
               /\ seen_urls = Range(urls)
               /\ sid_counter = n + 1
    /\ vs_status = "ready"
    /\ pc = "post_rounds"
    /\ max_iterations = 2
    /\ iteration = 2
    /\ qidx = 0
    /\ current_queries = <<1, 2>>
    /\ generator_input = NoGeneratorInput
    /\ retrieved_candidates = <<>>
    /\ selected_intents = <<>>
    /\ judge_raw = NoJudgeAnswer
    /\ round_log = NoRoundLog
    /\ agreement_raw = NoAnswer
    /\ agreement_map = <<>>
    /\ conflicts = <<>>
    /\ removals = <<>>
    /\ trace = RoundsTrace
    /\ returned = [done |-> FALSE, summaries |-> <<>>, report |-> FALSE]
    /\ error = "none"

NextScoring ==
    \/ PostRounds
    \/ pc = "agreement" /\ \E raw \in AgreementResponses(MaxRel) :
         DetectAgreements(raw)
    \/ AssignScores

SpecScoring == InitScoring /\ [][NextScoring]_vars

(***************************************************************************)
(* Conflict resolution on its own: the run has scored n freshly ingested   *)
(* records; the conflict detector may answer with any list of up to        *)
(* MaxConflicts conflicts.                                                 *)
(***************************************************************************)
\* id lists of the conflicts of a response: every pair over the ids a
\* response may mention, one list that is too short and one too long
ResolverIdLists == (AnswerIds \X AnswerIds) \cup {<<1>>, <<1, 2, 3>>}

\* the detector's answer: text that does not parse, or a response with at
\* most n conflicts whose id lists are drawn from idLists
ConflictResponsesOver(idLists, n) ==
    {[parsed |-> FALSE, list |-> <<>>]} \cup
    {[parsed |-> TRUE, list |-> l] :
        l \in UNION {{[k \in 1..len |-> Conflict(k, idl[k])] :
                        idl \in [1..len -> idLists]} : len \in 0..n}}

\* validated agreement maps the scoring may have worked from: no relation,
\* one relation, and two relations that lift S2 to the total score of S1
ScoredMaps(n) ==
    {<<>>, [p \in {<<2, 1>>} |-> "partially_supports"]} \cup
    IF n < 3 THEN {}
    ELSE {[p \in {<<1, 2>>, <<3, 2>>} |->
             IF p[1] = 1 THEN "strongly_supports" ELSE "independent"]}

InitConflicts ==
    /\ \E n \in 2..Min(MaxUrl, 2 * QUERIES_PER_ITERATION) :
         \E m \in ScoredMaps(n) :
           LET scores == compute_agreement_scores(m)
               recs == [k \in 1..n |-> Scored(IngestedRecord(k, k), scores)]
           IN  /\ heap = recs
               /\ vs_index = [k \in 1..n |-> recs[k].embedding]
               /\ vs_metadata = [k \in 1..n |-> k]
               /\ disk_index = File([k \in 1..n |-> recs[k].embedding])
               /\ disk_meta = File([k \in 1..n |-> IngestedRecord(k, k)])
               /\ vs_call = Call("upsert_summaries",
                                 <<IngestedRecord(n, n)>>, "returned")
               /\ summaries = [k \in 1..n |-> k]
               /\ seen_urls = 1..n
               /\ sid_counter = n + 1
               /\ agreement_raw = [parsed |-> TRUE, data |-> m,
                                   received |-> TRUE]
               /\ agreement_map = m
    /\ vs_status = "ready"
    /\ pc = "conflicts"
    /\ max_iterations = 2
    /\ iteration = 2
    /\ qidx = 0
    /\ current_queries = <<1, 2>>
    /\ generator_input = NoGeneratorInput
    /\ retrieved_candidates = <<>>
    /\ selected_intents = <<>>
    /\ judge_raw = NoJudgeAnswer
    /\ round_log = NoRoundLog
    /\ conflicts = <<>>
    /\ removals = <<>>
    /\ trace = RoundsTrace \o <<<<"agreement_map", 0>>, <<"total_scores", 0>>>>
    /\ returned = [done |-> FALSE, summaries |-> <<>>, report |-> FALSE]
    /\ error = "none"

NextConflicts ==
    \/ pc = "conflicts" /\
         \E raw \in ConflictResponsesOver(ResolverIdLists, MaxConflicts) :
            DetectConflicts(raw)
    \/ ResolveConflicts
    \/ pc = "rewrite" /\ \E raw \in RewriteResponses : Rewrite(raw)
    \/ \E ok \in BOOLEAN : Report(ok)

SpecConflicts == InitConflicts /\ [][NextConflicts]_vars

(***************************************************************************)
(* The credibility scorer on its own: a record with any author and domain  *)
(* of the sets below is scored at creation (lines 304-321), and the copy   *)
(* that a later reuse takes from its search hit is scored again (lines     *)
(* 244-251).                                                               *)
(***************************************************************************)
ScorerAuthors == {" Jane Smith ", "JANE SMITH", "anonymous", "none"}

ScorerDomains ==
    {"journal.org", "preprints.org", "series.org", "forum.org", "blog.net",
     "Journal.org", ""}

\* lines 304-316: the record dict before it is scored
UnscoredRecord(q, u, a, d) ==
    [NewRecord(1, q, u) EXCEPT !.author = a, !.domain = d]

InitScorer ==
    /\ \E q \in QueryTexts, u \in URLS, a \in ScorerAuthors,
          d \in ScorerDomains :
          heap = <<UnscoredRecord(q, u, a, d)>>
    /\ vs_index = <<>>
    /\ vs_metadata = <<>>
    /\ disk_index = File(<<>>)
    /\ disk_meta = File(<<>>)
    /\ vs_status = "ready"
    /\ vs_call = Call("load", <<>>, "returned")
    /\ pc = "score"
    /\ max_iterations = 2
    /\ iteration = 1
    /\ qidx = 1
    /\ current_queries = <<1, 2>>
    /\ generator_input = NoGeneratorInput
    /\ retrieved_candidates = <<>>
    /\ selected_intents = <<>>
    /\ judge_raw = NoJudgeAnswer
    /\ round_log = NoRoundLog
    /\ summaries = <<>>
    /\ seen_urls = {}
    /\ sid_counter = 2
    /\ agreement_raw = NoAnswer
    /\ agreement_map = <<>>
    /\ conflicts = <<>>
    /\ removals = <<>>
    /\ trace = <<>>
    /\ returned = [done |-> FALSE, summaries |-> <<>>, report |-> FALSE]
    /\ error = "none"

\* lines 318-322: the new record is scored and joins the run
ScoreCreated ==
    /\ pc = "score"
    /\ heap' = [heap EXCEPT ![1].credibility_score =
                               compute_summary_score(heap[1])]
    /\ summaries' = <<1>>
    /\ seen_urls' = {heap[1].url}
    /\ pc' = "rescore"
    /\ UNCHANGED <<vs_index, vs_metadata, disk_index, disk_meta, vs_status,
                   vs_call, roundVars, max_iterations, sid_counter,
                   agreement_raw, agreement_map, conflicts, removals, trace,
                   returned, error>>

\* lines 244-251 on the hit built from that record (vector_search.py 87-98):
\* the copy gets the next id and a score of its own
ScoreReused ==
    /\ pc = "rescore"
    /\ LET r1 == [Hit(heap[1]) EXCEPT !.id = sid_counter]
           r == [r1 EXCEPT !.credibility_score = compute_summary_score(r1)]
       IN  /\ heap' = Append(heap, r)
           /\ summaries' = Append(summaries, Len(heap) + 1)
    /\ sid_counter' = sid_counter + 1
    /\ pc' = "scored"
    /\ UNCHANGED <<vs_index, vs_metadata, disk_index, disk_meta, vs_status,
                   vs_call, roundVars, max_iterations, seen_urls,
                   agreement_raw, agreement_map, conflicts, removals, trace,
                   returned, error>>

NextScorer == ScoreCreated \/ ScoreReused

SpecScorer == InitScorer /\ [][NextScorer]_vars

(***************************************************************************)
(* Properties.                                                             *)
(***************************************************************************)
RecordAt(i) == heap[summaries[i]]

\* C1: at every point of a run the seen-URL set has as many elements as
\* there are collected records, it is exactly the set of their URLs, and no
\* two collected records share a URL.
C1_SeenUrlsMatchRecords ==
    /\ Cardinality(seen_urls) = Len(summaries)
    /\ seen_urls = {RecordAt(i).url : i \in 1..Len(summaries)}
    /\ \A i, j \in 1..Len(summaries) :
          i # j => RecordAt(i).url # RecordAt(j).url

\* a second round in which one query reused a stored record and the other
\* ingested a fresh one, on top of a record of the first round
C1_Witness ==
    /\ iteration = 2
    /\ Len(summaries) >= 3
    /\ \E q \in DOMAIN round_log : round_log[q].path = "reuse"
    /\ \E q \in DOMAIN round_log :
          round_log[q].path = "web" /\ round_log[q].rec # 0

\* the durable files can be loaded and hold what the client holds in memory
DurableMatches ==
    /\ LoadOk(disk_index, disk_meta)
    /\ Len(disk_index.data) = Len(vs_index)
    /\ Len(disk_meta.data) = Len(vs_metadata)

\* C2: the index holds as many vectors as there are metadata records, in
\* memory after every call and after every reload that succeeds; and a call
\* that returns leaves the durable files in step with memory if they were
\* before, so after any sequence of returning upserts a reload succeeds
\* with equal counts.
C2_CountsAgree ==
    /\ [](vs_status = "ready" => Len(vs_index) = Len(vs_metadata))
    /\ [][(DurableMatches /\ vs_call'.result = "returned")
            => DurableMatches']_vars

\* a store reloaded after upserts made it larger than any initial store
C2_Witness ==
    /\ vs_call = Call("load", <<>>, "returned")
    /\ Len(vs_index) = 3
    /\ Len(vs_metadata) = 3

\* C3: an upsert that raises leaves the in-memory index and metadata and
\* both durable files as they were; an upsert that returns has appended the
\* whole batch, in order, in memory and on disk.
C3_AllOrNothing ==
    [][vs_call'.op = "upsert" =>
         IF vs_call'.result = "raised"
         THEN UNCHANGED <<vs_index, vs_metadata, disk_index, disk_meta>>
         ELSE LET batch == vs_call'.records
              IN  /\ vs_index' = vs_index \o
                        [i \in 1..Len(batch) |-> batch[i].embedding]
                  /\ Snapshot(heap', vs_metadata')
                        = Snapshot(heap, vs_metadata) \o batch
                  /\ batch # <<>> =>
                        /\ disk_index' = File(vs_index')
                        /\ disk_meta' = File(Snapshot(heap', vs_metadata'))
      ]_vars

\* C4: a record that is in the store stays there unchanged: no step of the
\* pipeline removes it, moves it, or changes its vector or any field of its
\* stored metadata.
C4_StoredRecordsFrozen ==
    [][\A i \in 1..Len(vs_metadata) :
          /\ i <= Len(vs_metadata')
          /\ i <= Len(vs_index')
          /\ vs_index'[i] = vs_index[i]
          /\ heap'[vs_metadata'[i]] = heap[vs_metadata[i]]
      ]_vars

\* C5: when the judge answered the same candidate id for two distinct
\* queries of a round, at most one of the two queries reuses its candidate.
C5_SameIdReusedOnce ==
    \A q1, q2 \in DOMAIN selected_intents :
        (/\ q1 # q2
         /\ selected_intents[q1] # 0
         /\ selected_intents[q1] = selected_intents[q2])
        => ~(round_log[q1].path = "reuse" /\ round_log[q2].path = "reuse")

\* C6: the step that settles a query reuses a candidate exactly when the
\* judge chose one of the query's candidates and its URL is not in the
\* seen-URL set at that moment, and then the new record carries that
\* candidate's URL; in every other case the query takes the web path; and
\* the records collected after the step have pairwise different URLs.
C6_ReuseOnlyUnseenChoice ==
    [][pc = "query" =>
         LET v == selected_intents[qidx]
             cands == retrieved_candidates[qidx]
             chosen == v # 0 /\ v \in DOMAIN cands
             unseen == chosen /\ cands[v].url \notin seen_urls
             entry == round_log'[qidx]
         IN  /\ entry.path \in {"reuse", "web"}
             /\ entry.path = "reuse" <=> unseen
             /\ entry.path = "reuse" =>
                   /\ summaries' = Append(summaries, entry.rec)
                   /\ heap'[entry.rec].url = cands[v].url
             /\ \A i, j \in 1..Len(summaries') :
                   i # j => heap'[summaries'[i]].url # heap'[summaries'[j]].url
      ]_vars

\* a query whose chosen candidate had a URL the run had already used, and
\* which therefore went to the web
C6_Witness ==
    \E q \in DOMAIN selected_intents :
        /\ q \in DOMAIN retrieved_candidates
        /\ selected_intents[q] \in DOMAIN retrieved_candidates[q]
        /\ round_log[q].path = "web"
        /\ \E q0 \in DOMAIN round_log :
              /\ q0 < q
              /\ round_log[q0].rec # 0
              /\ heap[round_log[q0].rec].url
                    = retrieved_candidates[q][selected_intents[q]].url

\* positions of the trace entries with a given tag
Positions(tag) == {i \in DOMAIN trace : trace[i][1] = tag}

\* the phases after the rounds, in the order of run_pipeline
PostPhases ==
    <<"agreement_map", "total_scores", "conflicts", "conflict_resolutions">>

\* tags logged within a round
RoundTags ==
    {"coverage_refinement", "iteration_start", "intent_selection",
     "iteration_end"}

\* C7: the plan is made once and first; the rounds are numbered 1, 2, ... in
\* increasing order; the agreement detector, the score assignment, the
\* conflict detector and the conflict resolver each run at most once, in
\* that order, after the end of the final round and never before the end of
\* a round's activity; a run that returns a report has run each of them
\* exactly once after exactly max_iterations rounds.
C7_PhaseOrder ==
    /\ Cardinality(Positions("research_plan")) <= 1
    /\ trace # <<>> => trace[1] = <<"research_plan", 0>>
    /\ \A i \in Positions("iteration_start") :
          /\ trace[i][2] =
                Cardinality({j \in Positions("iteration_start") : j <= i})
          /\ trace[i][2] <= max_iterations
    /\ \A i \in Positions("iteration_end") :
          trace[i][2] =
             Cardinality({j \in Positions("iteration_start") : j <= i})
    /\ \A k \in DOMAIN PostPhases :
          /\ Cardinality(Positions(PostPhases[k])) <= 1
          /\ \A i \in Positions(PostPhases[k]) :
                /\ \E j \in 1..(i - 1) :
                      trace[j] = <<"iteration_end", max_iterations>>
                /\ \A j \in DOMAIN trace :
                      trace[j][1] \in RoundTags => j < i
                /\ k > 1 => \E j \in Positions(PostPhases[k - 1]) : j < i
    /\ (pc = "done" /\ returned.report) =>
          /\ Cardinality(Positions("research_plan")) = 1
          /\ Cardinality(Positions("iteration_start")) = max_iterations
          /\ Cardinality(Positions("iteration_end")) = max_iterations
          /\ \A k \in DOMAIN PostPhases :
                Cardinality(Positions(PostPhases[k])) = 1

\* a run of two rounds that went through every phase and returned a report
C7_Witness ==
    /\ pc = "done"
    /\ returned.report
    /\ max_iterations = 2
    /\ Len(summaries) >= 2

\* C8 as stated: a run that ends with fewer than two records returns no
\* record and has run neither scoring nor conflict resolution.
C8_EarlyReturnEmpty ==
    (returned.done /\ Len(summaries) < MIN_RECORDS_FOR_SCORING) =>
        /\ returned.summaries = <<>>
        /\ \A k \in DOMAIN PostPhases : Positions(PostPhases[k]) = {}

\* C8, as the code has it: with fewer than two records after the final
\* round the run ends at once, without agreement detection, scoring,
\* conflict resolution or report, and returns the records collected so far
\* (at most one), none of which carries an agreement or a total score.
C8_EarlyReturnUnscored ==
    /\ [](Len(summaries) < MIN_RECORDS_FOR_SCORING =>
            /\ pc \notin {"agreement", "scores", "conflicts", "resolve",
                          "rewrite", "report"}
            /\ \A k \in DOMAIN PostPhases : Positions(PostPhases[k]) = {}
            /\ agreement_raw = NoAnswer
            /\ \A i \in 1..Len(summaries) :
                  /\ RecordAt(i).agreement_score = Absent
                  /\ RecordAt(i).total_score = Absent
            /\ returned.done =>
                  /\ pc = "done"
                  /\ ~returned.report
                  /\ returned.summaries = summaries)
    /\ [][(pc = "post_rounds" /\ Len(summaries) < MIN_RECORDS_FOR_SCORING)
            => (pc' = "done" /\ returned'.done)]_vars

\* a run that ended early and returned the one record it had collected
C8_Witness ==
    /\ pc = "done"
    /\ Len(summaries) = 1
    /\ returned.summaries = summaries
    /\ ~returned.report

\* an entry of an agreement response that the contract forbids
Offending(data, p) ==
    \/ p[1] = p[2]
    \/ p[1] \notin RunIds
    \/ p[2] \notin RunIds
    \/ ~(data[p] = "strongly_supports" \/ data[p] = "partially_supports"
         \/ data[p] = "independent")

\* C9: once a parsed agreement response with a self-loop, an id of no record
\* or a foreign label has been received, the run is aborted with a
\* validation error, no agreement map exists (not even one without the
\* offending entry) and no record carries an agreement or a total score.
C9_InvalidAgreementAborts ==
    (/\ agreement_raw.received
     /\ agreement_raw.parsed
     /\ \E p \in DOMAIN agreement_raw.data :
           Offending(agreement_raw.data, p))
    => /\ pc = "aborted"
       /\ error = "agreement_validation"
       /\ agreement_map = <<>>
       /\ \A i \in 1..Len(summaries) :
             /\ RecordAt(i).agreement_score = Absent
             /\ RecordAt(i).total_score = Absent

\* a run aborted on a response that holds a self-loop next to a valid entry
C9_Witness ==
    /\ pc = "aborted"
    /\ agreement_raw.received
    /\ agreement_raw.parsed
    /\ \E p, q \in DOMAIN agreement_raw.data :
          /\ p[1] = p[2]
          /\ p[1] \in RunIds
          /\ agreement_raw.data[p] \in ALLOWED_LABELS
          /\ ~Offending(agreement_raw.data, q)

\* number of relations of the agreement map with a given target and label
Incoming(i, label) ==
    Cardinality({p \in DOMAIN agreement_map :
                    p[2] = i /\ agreement_map[p] = label})

\* C10: after the scores are assigned, the agreement score of every record
\* is 5 for each strongly_supports, 3 for each partially_supports and 1 for
\* each independent relation that points at it, and nothing else: relations
\* that start at the record do not count and a record nothing points at
\* scores 0.
C10_AgreementScoreIsIncomingWeight ==
    pc = "conflicts" =>
        \A k \in 1..Len(summaries) :
            LET i == RecordAt(k).id
            IN  RecordAt(k).agreement_score =
                    5 * Incoming(i, "strongly_supports")
                  + 3 * Incoming(i, "partially_supports")
                  + Incoming(i, "independent")

\* S1 -> S2 strongly_supports and S3 -> S2 partially_supports: S2 scores 8,
\* S1 and S3 score 0
C10_Witness ==
    /\ pc = "conflicts"
    /\ Len(summaries) = 3
    /\ DOMAIN agreement_map = {<<1, 2>>, <<3, 2>>}
    /\ agreement_map[<<1, 2>>] = "strongly_supports"
    /\ agreement_map[<<3, 2>>] = "partially_supports"
    /\ RecordAt(1).agreement_score = 0
    /\ RecordAt(2).agreement_score = 8
    /\ RecordAt(3).agreement_score = 0

\* the scores have been assigned in this run
ScoresAssigned == Positions("total_scores") # {}

\* C11: once the scores are assigned, every record of the run has
\* total_score = credibility_score + agreement_score, with the credibility
\* score that was computed when the record was created; no later step
\* (conflict detection, resolution, rewriting, report) changes a record's
\* credibility, agreement or total score.
C11_TotalScoreFrozen ==
    /\ [](ScoresAssigned =>
            \A i \in 1..Len(summaries) :
               /\ RecordAt(i).credibility_score
                     = compute_summary_score(RecordAt(i))
               /\ RecordAt(i).agreement_score # Absent
               /\ RecordAt(i).total_score
                     = RecordAt(i).credibility_score
                       + RecordAt(i).agreement_score)
    /\ [][\A i \in 1..Len(summaries) :
             /\ heap'[summaries[i]].credibility_score
                   = RecordAt(i).credibility_score
             /\ ScoresAssigned =>
                   /\ summaries' = summaries
                   /\ heap'[summaries[i]].agreement_score
                         = RecordAt(i).agreement_score
                   /\ heap'[summaries[i]].total_score
                         = RecordAt(i).total_score]_vars

\* a finished run in which a record with a positive agreement score and a
\* positive credibility score exists and one record's text was rewritten
C11_Witness ==
    /\ pc = "done"
    /\ returned.report
    /\ \E i \in 1..Len(summaries) :
          /\ RecordAt(i).agreement_score > 0
          /\ RecordAt(i).credibility_score > 0
          /\ RecordAt(i).total_score
                = RecordAt(i).credibility_score + RecordAt(i).agreement_score
    /\ \E i \in 1..Len(summaries) : RecordAt(i).summary = RewrittenText

\* the conflicts have been resolved in this run
ConflictsResolved == Positions("conflict_resolutions") # {}

\* the total score of the record with id i
TotalOf(i) ==
    heap[CHOOSE r \in Range(summaries) : heap[r].id = i].total_score

\* conflict k is between two records of the run and the record with id i
\* has the strictly lower total score of the two
LosesIn(k, i) ==
    LET ids == conflicts[k].ids
    IN  /\ Len(ids) = 2
        /\ ids[1] \in RunIds
        /\ ids[2] \in RunIds
        /\ \/ ids[1] = i /\ TotalOf(ids[1]) < TotalOf(ids[2])
           \/ ids[2] = i /\ TotalOf(ids[2]) < TotalOf(ids[1])

\* the claims the record with id i loses, in the order of the conflicts:
\* claim_a where it is the first id, claim_b where it is the second
LostClaims(i) ==
    LET K == {k \in DOMAIN conflicts : LosesIn(k, i)}
        Nth(j) == CHOOSE k \in K : Cardinality({x \in K : x < k}) = j - 1
    IN  [j \in 1..Cardinality(K) |->
            IF conflicts[Nth(j)].ids[1] = i THEN conflicts[Nth(j)].claim_a
            ELSE conflicts[Nth(j)].claim_b]

\* C12: after conflict resolution the removal list of every record of the
\* run holds exactly the claims of that record's side from the conflicts in
\* which it has the strictly lower total score, in the order of the
\* conflicts, and so nothing from a conflict in which it scores higher.
C12_LowerSideLosesClaim ==
    ConflictsResolved =>
        \A i \in RunIds : Get(removals, i, <<>>) = LostClaims(i)

\* the example of the specification: A scores higher than B; the plan is
\* {B: [claim_b]} and does not mention A
C12_Witness ==
    /\ ConflictsResolved
    /\ conflicts = <<Conflict(1, <<1, 2>>)>>
    /\ TotalOf(1) > TotalOf(2)
    /\ DOMAIN removals = {2}
    /\ removals[2] = <<conflicts[1].claim_b>>

\* conflict k is between two records of the run with equal total scores
TieIn(k) ==
    LET ids == conflicts[k].ids
    IN  /\ Len(ids) = 2
        /\ ids[1] \in RunIds
        /\ ids[2] \in RunIds
        /\ TotalOf(ids[1]) = TotalOf(ids[2])

\* C13: after conflict resolution no removal list holds a claim of a
\* conflict between two records of equal total score; and when every
\* conflict of the run is such a tie, the removal plan is empty, the
\* rewriter is never called and every record keeps its text.
C13_TieRemovesNothing ==
    ConflictsResolved =>
        /\ \A k \in DOMAIN conflicts :
              TieIn(k) =>
                 \A i \in DOMAIN removals :
                    /\ conflicts[k].claim_a \notin Range(removals[i])
                    /\ conflicts[k].claim_b \notin Range(removals[i])
        /\ (\A k \in DOMAIN conflicts : TieIn(k)) =>
              /\ removals = <<>>
              /\ Positions("rewrite_call") = {}
              /\ \A i \in 1..Len(summaries) : RecordAt(i).summary = OrigText

\* a finished run with one conflict between two different records of equal
\* positive total score: the plan is empty and no text was rewritten
C13_Witness ==
    /\ pc = "done"
    /\ returned.report
    /\ Len(conflicts) = 1
    /\ TieIn(1)
    /\ conflicts[1].ids[1] # conflicts[1].ids[2]
    /\ TotalOf(conflicts[1].ids[1]) > 0
    /\ removals = <<>>
    /\ \A i \in 1..Len(summaries) : RecordAt(i).summary = OrigText

\* conflict k does not name exactly two ids, or names an id of no record
Malformed(k) ==
    \/ Len(conflicts[k].ids) # 2
    \/ \E j \in DOMAIN conflicts[k].ids : conflicts[k].ids[j] \notin RunIds

\* C14: after conflict resolution every key of the removal plan is the id
\* of a record of the run, and no removal list holds a claim of a conflict
\* that names an id without total score or does not name exactly two ids.
C14_MalformedConflictSkipped ==
    ConflictsResolved =>
        /\ DOMAIN removals \subseteq RunIds
        /\ \A k \in DOMAIN conflicts :
              Malformed(k) =>
                 \A i \in DOMAIN removals :
                    /\ conflicts[k].claim_a \notin Range(removals[i])
                    /\ conflicts[k].claim_b \notin Range(removals[i])

\* C15: a step in which a query's web ingestion ends without a record
\* (search, extraction or summarisation failed, or nothing usable was
\* found) leaves the run's records and seen-URL set unchanged and moves on
\* to the next query or to the end of the round; it does not end the run.
C15_QueryFailureNotFatal ==
    [][(/\ pc = "query"
        /\ round_log'[qidx].path = "web"
        /\ round_log'[qidx].rec = 0)
       => /\ pc' \in {"query", "iteration_end"}
          /\ error' = "none"
          /\ UNCHANGED <<summaries, seen_urls>>]_vars

\* C16: once an answer of the equivalence judge that cannot be parsed, or
\* that chooses for some query an id that is not among that query's
\* candidates, has been received, the run is aborted: it does not go on to
\* settle the round's queries.
C16_JudgeViolationFatal ==
    (/\ judge_raw.received
     /\ \/ ~judge_raw.parsed
        \/ \E q \in DOMAIN judge_raw.answer :
              /\ judge_raw.answer[q] # 0
              /\ judge_raw.answer[q] \notin DOMAIN retrieved_candidates[q])
    => pc = "aborted"

\* C17: the conflicts handed to the resolver hold at most one conflict per
\* unordered pair of ids: a run that has resolved its conflicts has no two
\* conflicts between the same two different ids.
C17_OneConflictPerPair ==
    ConflictsResolved =>
        \A k1, k2 \in DOMAIN conflicts :
            (/\ k1 # k2
             /\ Len(conflicts[k1].ids) = 2
             /\ Len(conflicts[k2].ids) = 2
             /\ conflicts[k1].ids[1] # conflicts[k1].ids[2])
            => Range(conflicts[k1].ids) # Range(conflicts[k2].ids)

\* the run is inside a round: its queries are generated and not all settled
InRound == pc \in {"vector_search", "intent_selection", "query",
                   "iteration_end"}

\* C18: inside every round the controller works on exactly
\* QUERIES_PER_ITERATION queries, and when the round's queries are settled
\* each of them, and no other, has been processed; the step that asks the
\* generator either starts the round with exactly that many queries or
\* aborts the run with the generator's error before the round is logged as
\* started and without touching the records, the seen URLs or the store.
C18_ExactQueryCount ==
    /\ [](InRound =>
            /\ Len(current_queries) = QUERIES_PER_ITERATION
            /\ qidx \in 0..QUERIES_PER_ITERATION
            /\ pc = "iteration_end" =>
                  \A q \in DOMAIN round_log :
                     /\ q \in 1..QUERIES_PER_ITERATION
                     /\ round_log[q].path \in {"reuse", "web"})
    /\ [][pc = "gen_queries" =>
            \/ /\ pc' = "vector_search"
               /\ iteration' = iteration + 1
               /\ Len(current_queries') = QUERIES_PER_ITERATION
               /\ \A q \in DOMAIN current_queries' :
                     current_queries'[q] \in QueryTexts
            \/ /\ pc' = "aborted"
               /\ error' \in {"initial_subqueries", "refine_queries"}
               /\ <<"iteration_start", iteration'>> \notin Range(trace')
               /\ UNCHANGED <<storeVars, summaries, seen_urls, round_log,
                              sid_counter>>]_vars

\* a second round whose queries were cut from a longer answer of the
\* generator (only the answer <<1, 1, 2>> starts with 1, 1) and have both
\* been settled
C18_Witness ==
    /\ pc = "iteration_end"
    /\ iteration = 2
    /\ current_queries = <<1, 1>>
    /\ \A q \in 1..QUERIES_PER_ITERATION : round_log[q].path # "pending"

\* both durable files can be read but hold different numbers of entries
CountMismatch ==
    /\ disk_index.state = "ok"
    /\ disk_meta.state = "ok"
    /\ Len(disk_index.data) # Len(disk_meta.data)

\* C19: a load rebuilds the client from the durable files: when both are
\* readable with equal counts the client holds exactly their contents; when
\* the counts differ the load raises, the files are left as they are, and
\* the client holds nothing and serves no upsert until a later load succeeds.
C19_LoadMismatchFatal ==
    /\ [][vs_call'.op = "load" =>
            /\ UNCHANGED <<disk_index, disk_meta>>
            /\ CountMismatch =>
                  /\ vs_call'.result = "raised"
                  /\ vs_status' = "load_failed"
                  /\ vs_index' = <<>>
                  /\ vs_metadata' = <<>>
            /\ (/\ disk_index.state = "ok"
                /\ disk_meta.state = "ok"
                /\ ~CountMismatch) =>
                  /\ vs_call'.result = "returned"
                  /\ vs_status' = "ready"
                  /\ vs_index' = disk_index.data
                  /\ Snapshot(heap', vs_metadata') = disk_meta.data]_vars
    /\ [][vs_status # "ready" =>
            /\ vs_call'.op = "load"
            /\ UNCHANGED <<disk_index, disk_meta>>]_vars
    /\ [](vs_status # "ready" => vs_index = <<>> /\ vs_metadata = <<>>)

\* a restart that failed on readable files with different counts
C19_Witness ==
    /\ vs_status = "load_failed"
    /\ vs_call = Call("load", <<>>, "raised")
    /\ CountMismatch

\* number of records of the run with URL u
AcceptedFor(u) ==
    Cardinality({i \in 1..Len(summaries) : RecordAt(i).url = u})

\* C20: the queries of a round are settled one at a time, so for every URL
\* at most one record of the run and at most one entry of the vector store
\* exists; the step in which a query accepts a freshly ingested URL finds
\* it unseen, and in that same step marks it seen, appends the one record
\* and, when the store call returns, leaves exactly one stored entry for
\* it; no other query of the round is settled in that step.
C20_OneRecordPerRacedUrl ==
    /\ [](\A u \in URLS :
            /\ AcceptedFor(u) <= 1
            /\ Cardinality({i \in 1..Len(vs_metadata) :
                              heap[vs_metadata[i]].url = u}) <= 1)
    /\ [][(/\ pc = "query"
           /\ round_log'[qidx].path = "web"
           /\ round_log'[qidx].rec # 0)
          => LET ref == round_log'[qidx].rec
                 u == heap'[ref].url
             IN  /\ u \notin seen_urls
                 /\ seen_urls' = seen_urls \cup {u}
                 /\ summaries' = Append(summaries, ref)
                 /\ \A q \in DOMAIN round_log :
                       q # qidx => round_log'[q] = round_log[q]
                 /\ vs_call'.result = "returned" =>
                       Cardinality({i \in 1..Len(vs_metadata') :
                                      heap'[vs_metadata'[i]].url = u}) = 1
      ]_vars

\* two queries with the same text in one round: the first ingested a URL,
\* the second found nothing that was not already used
C20_Witness ==
    /\ pc = "iteration_end"
    /\ current_queries[1] = current_queries[2]
    /\ round_log[1].path = "web"
    /\ round_log[1].rec # 0
    /\ AcceptedFor(heap[round_log[1].rec].url) = 1
    /\ round_log[2].path = "web"
    /\ round_log[2].rec = 0

\* ---- C21 ----
\* the id -> text map of every record the run holds
AllTexts ==
    {<<heap[summaries[k]].id, heap[summaries[k]].summary>> :
        k \in 1..Len(summaries)}

\* the generator input g, as a set of <<id, text>> pairs
TextsOf(g) == {<<i, g.summaries[i]>> : i \in DOMAIN g.summaries}

\* a step that starts the query generation of the next round
StartsRound == iteration' # iteration

\* C21: rounds are strictly sequential.  Query generation of round i+1
\* starts only from the head of the loop, directly after the end of round i
\* was logged, and the end of a round is logged only when none of its
\* queries is pending; round 1 uses the initial generator (plan only), and
\* the refinement generator of round i+1 is given the texts of all records
\* accepted in rounds 1..i.
C21_RoundsSequential ==
    [][/\ StartsRound =>
            /\ pc = "gen_queries"
            /\ iteration' = iteration + 1
            /\ iteration = 0 =>
                  /\ trace[Len(trace)][1] = "research_plan"
                  /\ generator_input'.kind = "initial"
                  /\ TextsOf(generator_input') = {}
            /\ iteration >= 1 =>
                  /\ trace[Len(trace)] = <<"iteration_end", iteration>>
                  /\ generator_input'.kind = "refine"
                  /\ TextsOf(generator_input') = AllTexts
                  /\ Cardinality(DOMAIN generator_input'.summaries)
                        = Len(summaries)
       /\ (pc # "iteration_end" /\ pc' = "iteration_end") =>
            /\ qidx' = QUERIES_PER_ITERATION
            /\ \A q \in 1..QUERIES_PER_ITERATION :
                  round_log'[q].path # "pending"
       /\ (Len(trace') > Len(trace)
             /\ trace'[Len(trace')][1] = "iteration_end") =>
            /\ pc = "iteration_end"
            /\ trace'[Len(trace')][2] = iteration
            /\ \A q \in 1..QUERIES_PER_ITERATION :
                  round_log[q].path # "pending"]_vars

\* round 2 is running on queries refined from a record of round 1
C21_Witness ==
    /\ iteration = 2
    /\ pc = "query"
    /\ generator_input.kind = "refine"
    /\ DOMAIN generator_input.summaries # {}

\* ---- C22 ----
\* the phases in which run_pipeline settles the queries of a round
RoundPhases == {"query"}

\* the run's records are listed in the order of their creation
CreationOrder(s) ==
    \A j, k \in 1..Len(s) : j < k => heap[s[j]].id < heap[s[k]].id

\* C22: a record of the run is never deleted or reordered.  The record
\* list changes only while a query of a round is settled, and then by one
\* append; every record keeps its place and its id through scoring and
\* conflict resolution; and what the run hands over is the whole list, in
\* the order of creation.
C22_RecordsKeptInOrder ==
    /\ [](/\ CreationOrder(summaries)
          /\ returned.done =>
                /\ returned.summaries = summaries
                /\ CreationOrder(returned.summaries))
    /\ [][/\ Len(summaries') >= Len(summaries)
          /\ SubSeq(summaries', 1, Len(summaries)) = summaries
          /\ \A k \in 1..Len(summaries) :
                heap'[summaries[k]].id = heap[summaries[k]].id
          /\ summaries' # summaries =>
                /\ pc \in RoundPhases
                /\ Len(summaries') = Len(summaries) + 1]_vars

\* a run that rewrote a record has handed over two or more records
C22_Witness ==
    /\ returned.done
    /\ returned.report
    /\ Len(returned.summaries) >= 2
    /\ \E k \in 1..Len(summaries) :
          heap[summaries[k]].summary = RewrittenText

\* ---- C23 ----
\* the step settles query q of the round
Settles(q) ==
    /\ pc = "query"
    /\ qidx = q
    /\ round_log[q].path = "pending"
    /\ round_log'[q].path # "pending"

\* C23: ids are unique and never reused.  The k-th record of the run has
\* id S<k> whichever path created it, the next id to hand out is always
\* one more than the number of records, an id is consumed exactly by the
\* step that creates a record, and a query that is settled without a
\* record (nothing acceptable, or a failure before a record exists) leaves
\* the counter alone.
C23_IdsAreCreationRanks ==
    /\ [](/\ \A k \in 1..Len(summaries) : heap[summaries[k]].id = k
          /\ sid_counter = Len(summaries) + 1)
    /\ [][/\ sid_counter' >= sid_counter
          /\ sid_counter' # sid_counter =>
                /\ sid_counter' = sid_counter + 1
                /\ Len(summaries') = Len(summaries) + 1
                /\ heap'[summaries'[Len(summaries')]].id = sid_counter
          /\ \A q \in 1..QUERIES_PER_ITERATION :
                (Settles(q) /\ round_log'[q].rec = 0) =>
                    sid_counter' = sid_counter]_vars

\* the third record of the run was created by reuse in the second round
C23_Witness ==
    /\ Len(summaries) = 3
    /\ \E q \in 1..QUERIES_PER_ITERATION :
          /\ round_log[q].path = "reuse"
          /\ round_log[q].rec = summaries[3]
    /\ \E k \in 1..Len(trace) : trace[k] = <<"iteration_end", 1>>
    /\ sid_counter = 4

\* ---- C24 ----
\* the author, after trimming and lower-casing, is a trusted one
TrustedAuthor(a) == a \in {" Jane Smith ", "JANE SMITH"}

\* the domain the score looks at: the record's own, else the URL's host
ScoredDomain(r) ==
    IF r.domain = ""
    THEN (CASE r.url = 1 -> "journal.org"
            [] r.url = 2 -> "preprints.org"
            [] OTHER -> "blog.net")
    ELSE r.domain

\* fixed bonus plus venue bonus of a trusted domain: journal, repository,
\* book series, any other venue type
DomainPoints(d) == CASE d = "journal.org" -> 5 + 3
                     [] d = "preprints.org" -> 5 + 2
                     [] d = "series.org" -> 5 + 1
                     [] d = "forum.org" -> 5 + 0
                     [] OTHER -> 0

ExpectedCredibility(r) ==
    (IF TrustedAuthor(r.author) THEN 5 ELSE 0) + DomainPoints(ScoredDomain(r))

\* every record of the run carries the expected score, and records that
\* agree in author, domain and URL agree in score
CredibilityAsExpected ==
    /\ \A k \in 1..Len(summaries) :
          /\ heap[summaries[k]].credibility_score
                = ExpectedCredibility(heap[summaries[k]])
          /\ heap[summaries[k]].credibility_score \in Nat
    /\ \A j, k \in 1..Len(summaries) :
          (/\ heap[summaries[j]].author = heap[summaries[k]].author
           /\ heap[summaries[j]].domain = heap[summaries[k]].domain
           /\ heap[summaries[j]].url = heap[summaries[k]].url)
          => heap[summaries[j]].credibility_score
                = heap[summaries[k]].credibility_score
    /\ pc = "scored" =>
          /\ Len(summaries) = 2
          /\ heap[summaries[2]].id # heap[summaries[1]].id
          /\ heap[summaries[2]].credibility_score
                = heap[summaries[1]].credibility_score

\* C24: a record's credibility score is 0, plus 5 for a trusted author
\* (trimmed, lower-cased), plus 5 and the venue bonus (journal 3 >
\* repository 2 > book series 1, else 0) for a trusted domain; it is a
\* non-negative integer, it depends on author, domain and URL only, and
\* the copy taken by a reuse is given the same score again.
C24_CredibilityScore ==
    /\ [][\A k \in 1..Len(summaries) :
            heap'[summaries[k]].credibility_score
               = heap[summaries[k]].credibility_score]_vars
    /\ []CredibilityAsExpected

\* a record of a trusted author in a book series was scored 11, twice
C24_Witness ==
    /\ pc = "scored"
    /\ heap[summaries[1]].author = "JANE SMITH"
    /\ heap[summaries[1]].domain = "series.org"
    /\ heap[summaries[2]].credibility_score = 11

\* ---- C25 ----
\* the rewrite step of the run is over and did not fail
RewriteDone == pc \in {"report", "done"}

\* C25: after conflict resolution exactly the records whose id is in the
\* RemovalPlan carry the rewritten text: every id of the plan is rewritten
\* and every other record keeps its text, whatever ids the rewrite
\* capability returns.
C25_ExactlyPlanRewritten ==
    RewriteDone =>
        \A k \in 1..Len(summaries) :
            (heap[summaries[k]].summary = RewrittenText)
               <=> (heap[summaries[k]].id \in DOMAIN removals)

\* ---- C26 ----
\* the URLs of the records the store holds in memory
StoredUrls == {heap[vs_metadata[i]].url : i \in 1..Len(vs_metadata)}

\* no two records of the store share a URL
DistinctStoredUrls == Cardinality(StoredUrls) = Len(vs_metadata)

\* the step is a call of upsert_summaries on a store with distinct URLs
DedupCall ==
    /\ vs_call'.op = "upsert_summaries"
    /\ DistinctStoredUrls

\* the URLs of the batch handed to the call
BatchUrls == {vs_call'.records[i].url : i \in 1..Len(vs_call'.records)}

\* C26: upsert_summaries keeps the URLs of the store pairwise distinct.
\* The stored records stay where they are, a record whose URL is stored
\* already or occurs earlier in the batch is not appended, a call that
\* returns has stored every new URL of the batch once, and a call whose
\* batch holds duplicates only leaves the store and both files as they were.
C26_UpsertKeepsUrlsDistinct ==
    [][DedupCall =>
         /\ DistinctStoredUrls'
         /\ Len(vs_metadata') >= Len(vs_metadata)
         /\ \A i \in 1..Len(vs_metadata) :
               heap'[vs_metadata'[i]].url = heap[vs_metadata[i]].url
         /\ StoredUrls' \subseteq StoredUrls \cup BatchUrls
         /\ vs_call'.result = "returned" =>
               StoredUrls' = StoredUrls \cup BatchUrls
         /\ BatchUrls \subseteq StoredUrls =>
               /\ vs_call'.result = "returned"
               /\ Len(vs_metadata') = Len(vs_metadata)
               /\ vs_index' = vs_index
               /\ disk_index' = disk_index
               /\ disk_meta' = disk_meta]_vars

\* a batch with the same new URL twice was stored as one record next to
\* the record the store held before
C26_Witness ==
    /\ vs_call.op = "upsert_summaries"
    /\ vs_call.result = "returned"
    /\ Len(vs_call.records) = 2
    /\ vs_call.records[1].url = vs_call.records[2].url
    /\ Len(vs_metadata) = 2
    /\ DistinctStoredUrls
    /\ vs_call.records[1].url = heap[vs_metadata[2]].url

\* ---- C27 ----
\* the step settles the current query by reuse
ReuseStep ==
    \E q \in 1..QUERIES_PER_ITERATION :
        Settles(q) /\ round_log'[q].path = "reuse"

\* the record a reuse step has appended to the run
Clone == heap'[summaries'[Len(summaries')]]

\* C27: a reuse creates a copy with the next run-local id and a score of
\* its own and leaves Vector Memory alone: no store call is made, the
\* index, the metadata list and both files are as before, the copy is a
\* new object that is no member of the store, and every stored record,
\* the one the copy was taken from included, is what it was.
C27_ReuseLeavesStoreAlone ==
    [][ReuseStep =>
         /\ Len(summaries') = Len(summaries) + 1
         /\ Clone.id = sid_counter
         /\ Clone.credibility_score = ExpectedCredibility(Clone)
         /\ summaries'[Len(summaries')] \notin Range(vs_metadata')
         /\ \E i \in 1..Len(vs_metadata) :
               /\ heap[vs_metadata[i]].url = Clone.url
               /\ heap[vs_metadata[i]].summary = Clone.summary
         /\ vs_call' = vs_call
         /\ vs_index' = vs_index
         /\ vs_metadata' = vs_metadata
         /\ disk_index' = disk_index
         /\ disk_meta' = disk_meta
         /\ \A i \in 1..Len(vs_metadata) :
               heap'[vs_metadata[i]] = heap[vs_metadata[i]]]_vars

\* a record stored under id S1 was reused under id S2; the store still
\* holds it under S1
C27_Witness ==
    /\ \E q \in 1..QUERIES_PER_ITERATION :
          /\ round_log[q].path = "reuse"
          /\ heap[round_log[q].rec].id = 2
          /\ \E i \in 1..Len(vs_metadata) :
                /\ heap[vs_metadata[i]].url = heap[round_log[q].rec].url
                /\ heap[vs_metadata[i]].id = 1
                /\ vs_metadata[i] # round_log[q].rec

\* ---- C28 ----
\* the queries of the running round that have yielded a record
Yielded == {q \in 1..QUERIES_PER_ITERATION : round_log[q].rec # 0}

\* C28: a query yields at most one record and is not tried again in its
\* round.  A record is appended only by the step that settles a query,
\* one at most; a settled query keeps its outcome until the round ends and
\* the loop never goes back to it; so the run holds at most
\* queries_per_round records per round started, and at most one more per
\* query settled within the running round.
C28_OneRecordPerQuery ==
    /\ [](/\ Len(summaries) <= iteration * QUERIES_PER_ITERATION
          /\ InRound =>
                Len(summaries) <= (iteration - 1) * QUERIES_PER_ITERATION
                                     + Cardinality(Yielded))
    /\ [][/\ Len(summaries') <= Len(summaries) + 1
          /\ Len(summaries') > Len(summaries) =>
                \E q \in 1..QUERIES_PER_ITERATION :
                    /\ Settles(q)
                    /\ round_log'[q].rec = summaries'[Len(summaries')]
          /\ \A q \in 1..QUERIES_PER_ITERATION :
                (round_log[q].path # "pending" /\ pc # "iteration_end")
                   => round_log'[q] = round_log[q]
          /\ (pc = "query" /\ pc' = "query") => qidx' = qidx + 1]_vars

\* a round has ended with fewer records than queries: one query found
\* nothing and was left at that
C28_Witness ==
    /\ pc = "iteration_end"
    /\ iteration = 1
    /\ Len(summaries) = 1
    /\ round_log[1].path = "web"
    /\ round_log[1].rec = 0
    /\ round_log[2].rec # 0

\* ---- C29 ----
\* the calls of the rewrite capability made so far
RewriteCalls == Positions("rewrite_call")

\* record id i is among the ids that the call logged at position p was given
InCall(i, p) == (trace[p][2] \div (2 ^ (i - 1))) % 2 = 1

\* C29: the rewrite capability is called at most once per run, the one
\* call is given exactly the ids of the RemovalPlan, a run that has got
\* past the rewrite step with a non-empty plan has made the call, and with
\* an empty plan no call is made at all.
C29_OneBatchedRewriteCall ==
    /\ Cardinality(RewriteCalls) <= 1
    /\ DOMAIN removals = {} => RewriteCalls = {}
    /\ \A p \in RewriteCalls :
          /\ DOMAIN removals # {}
          /\ \A i \in 1..sid_counter : InCall(i, p) <=> i \in DOMAIN removals
    /\ (RewriteDone /\ DOMAIN removals # {}) => Cardinality(RewriteCalls) = 1

\* one call has rewritten the two records of a plan with two ids
C29_Witness ==
    /\ RewriteDone
    /\ Cardinality(DOMAIN removals) = 2
    /\ Cardinality(RewriteCalls) = 1
    /\ \A i \in DOMAIN removals :
          \E k \in 1..Len(summaries) :
              /\ heap[summaries[k]].id = i
              /\ heap[summaries[k]].summary = RewrittenText

\* ---- C30 ----
\* run_pipeline has returned or was ended by an exception
Finished == pc \in {"done", "aborted"}

\* round i was started and its end was logged
RoundCompleted(i) ==
    /\ \E p \in DOMAIN trace : trace[p] = <<"iteration_start", i>>
    /\ \E p \in DOMAIN trace : trace[p] = <<"iteration_end", i>>

\* C30: every run terminates.  In the end run_pipeline has returned (after
\* the report or by the early exit) or was ended by a fatal error; it
\* starts no more than max_iterations rounds; and when it returns, each of
\* the max_iterations rounds was started and has come to its end, so a
\* round that was started and did not complete belongs to an aborted run.
C30_RunTerminates ==
    /\ [](/\ iteration <= max_iterations
          /\ Cardinality(Positions("iteration_start")) <= max_iterations
          /\ pc = "done" =>
                /\ returned.done
                /\ iteration = max_iterations
                /\ \A i \in 1..max_iterations : RoundCompleted(i))
    /\ <>Finished

\* a run of two rounds has come to its end with a report
C30_Witness ==
    /\ pc = "done"
    /\ returned.report
    /\ iteration = 2
    /\ Cardinality(Positions("iteration_end")) = 2

====
